---- MODULE Spec2Model ----
(***************************************************************************)
(* 4D-ARE: the attribution agent's analyze operation (prompt rendering and *)
(* the retry loop around the completion call), the Metric Context          *)
(* formatter and its construction from a dict, the Domain Template         *)
(* renderer, and the evaluate_response operation of the judge.             *)
(*                                                                         *)
(* Texts.  A Python str is modelled as a Text: the non-empty sequence of   *)
(* its lines (what str.split("\n") gives), each line a sequence of tokens  *)
(* whose concatenation is the line.  Literal pieces of the source are one  *)
(* token each; a formatted number is one token per character, so that its  *)
(* digits can be read back.  The CJK labels of the source's literals are   *)
(* left out of the tokens (the module is ASCII); the ASCII remainder of    *)
(* each literal is kept.                                                   *)
(*                                                                         *)
(* Floats.  A finite float is modelled by the integer num, standing for    *)
(* num / Scale; nan is the float with fin = FALSE.                         *)
(***************************************************************************)
EXTENDS Integers, Sequences, FiniteSets, TLC

\* ------------------------------------------------------------- bounds
\* Largest max_retries an analyze call is given (the smallest is -1).
MaxRetries == 4
\* Largest retry_delay an analyze call is given (the smallest is 0).
MaxDelay == 2
\* Number of analyze calls made on the one agent instance.
MaxAnalyzeCalls == 2
\* Largest number of metrics of a Metric Context, over its four groups.
MaxMetrics == 4
\* Largest number of boundary rules of an ad hoc Domain Template.
MaxRules == 3
MaxServerCalls == 3
MaxScenarios == 2
MaxThreadRetries == 2

\* Resolution of the modelled floats: num stands for num / Scale.
Scale == 10000

\* ------------------------------------------------------------- texts
EmptyText == << <<>> >>

\* One-line text holding the tokens toks.
LineText(toks) == << toks >>

\* Python's a + b on str.
Cat(a, b) ==
    SubSeq(a, 1, Len(a) - 1) \o << a[Len(a)] \o b[1] >> \o Tail(b)

RECURSIVE JoinNL(_)
\* Python's "\n".join(parts), parts a list of str.
JoinNL(parts) ==
    IF parts = <<>> THEN EmptyText
    ELSE IF Len(parts) = 1 THEN parts[1]
    ELSE parts[1] \o JoinNL(Tail(parts))

RECURSIVE JoinComma(_)
\* Python's ", ".join(names), as the tokens of one line.
JoinComma(names) ==
    IF names = <<>> THEN <<>>
    ELSE IF Len(names) = 1 THEN << names[1] >>
    ELSE << names[1], ", " >> \o JoinComma(Tail(names))

\* ------------------------------------------------------------ numbers
DigitChar == << "0", "1", "2", "3", "4", "5", "6", "7", "8", "9" >>

RECURSIVE DecChars(_)
\* The decimal digits of the natural number n, one token per digit.
DecChars(n) ==
    IF n < 10 THEN << DigitChar[n + 1] >>
    ELSE DecChars(n \div 10) \o << DigitChar[(n % 10) + 1] >>

RECURSIVE Pow10(_)
Pow10(d) == IF d = 0 THEN 1 ELSE 10 * Pow10(d - 1)

RECURSIVE PadChars(_, _)
\* The natural number n as exactly d digits (n < 10^d).
PadChars(n, d) ==
    IF d = 0 THEN <<>>
    ELSE PadChars(n \div 10, d - 1) \o << DigitChar[(n % 10) + 1] >>

Abs(n) == IF n < 0 THEN 0 - n ELSE n

\* a / b rounded to the nearest integer, ties to even (a >= 0, b > 0): the
\* rounding of Python's float formatting.
RoundDiv(a, b) ==
    LET q == a \div b
        r == a % b
    IN  IF 2 * r > b THEN q + 1
        ELSE IF 2 * r < b THEN q
        ELSE IF q % 2 = 0 THEN q ELSE q + 1

\* format(x, ".<digits>f") of the finite float mult * num / Scale.
FixedChars(num, mult, digits) ==
    LET q == RoundDiv(Abs(num) * mult * Pow10(digits), Scale)
    IN  (IF num < 0 THEN << "-" >> ELSE <<>>)
        \o DecChars(q \div Pow10(digits))
        \o << "." >>
        \o PadChars(q % Pow10(digits), digits)

\* ------------------------------------------------------- metric values
\* The scalar values of the metrics: floats (finite ones, nan and inf), ints,
\* bools, short text labels and None.
Float(n) == [type |-> "float", fin |-> TRUE, num |-> n, name |-> ""]
NonFinite(name) == [type |-> "float", fin |-> FALSE, num |-> 0, name |-> name]
IntVal(n) == [type |-> "int", num |-> n]
BoolVal(b) == [type |-> "bool", b |-> b]
StrVal(s) == [type |-> "str", s |-> s]
NoneVal == [type |-> "none"]

\* 0.56, 2.1, 0.5678, -0.1234, 0.0, 1.0 and 0.0004: none is a rounding tie
\* of the two formats, which the binary expansion of the float would decide.
FloatNums == { 5600, 21000, 5678, -1234, 0, 10000, 4 }

MetricValues ==
    { Float(n) : n \in FloatNums }
    \cup { NonFinite("nan"), NonFinite("inf"), IntVal(3), IntVal(-7),
           BoolVal(TRUE), BoolVal(FALSE), StrVal("declining"), NoneVal }

\* The values of the end-to-end scenario.
CoreValues == { Float(5600), Float(21000), StrVal("declining") }

\* isinstance(v, float)
IsFloat(v) == v.type = "float"

\* f"{v:.1%}" of a float.
FormatPercent1(v) ==
    IF v.fin THEN FixedChars(v.num, 100, 1) \o << "%" >>
    ELSE << v.name, "%" >>

\* f"{v:.2f}" of a float.
FormatFixed2(v) ==
    IF v.fin THEN FixedChars(v.num, 1, 2)
    ELSE << v.name >>

RECURSIVE StripZeros(_)
\* A sequence of digits without its trailing zeros, keeping one digit.
StripZeros(ds) ==
    IF Len(ds) > 1 /\ ds[Len(ds)] = "0" THEN StripZeros(SubSeq(ds, 1, Len(ds) - 1))
    ELSE ds

\* repr of a float whose magnitude needs no exponent.
ReprFloat(v) ==
    IF v.fin
    THEN (IF v.num < 0 THEN << "-" >> ELSE <<>>)
         \o DecChars(Abs(v.num) \div Scale)
         \o << "." >>
         \o StripZeros(PadChars(Abs(v.num) % Scale, 4))
    ELSE << v.name >>

\* f"{v}": the natural text form of a value.
Str(v) ==
    CASE v.type = "float" -> ReprFloat(v)
      [] v.type = "int" ->
            (IF v.num < 0 THEN << "-" >> ELSE <<>>) \o DecChars(Abs(v.num))
      [] v.type = "bool" -> IF v.b THEN << "True" >> ELSE << "False" >>
      [] v.type = "str" -> << v.s >>
      [] v.type = "none" -> << "None" >>

\* ------------------------------------------------------ Metric Context
\* A Metric Group is a dict: the sequence of its items in insertion order.
\* The i-th metric of a generated group is named MetricName(i), so names are
\* unique within a group.
MetricName(i) == "metric_" \o ToString(i)

Item(k, v) == [k |-> k, v |-> v]

\* The group of n metrics whose values are f[1], ..., f[n].
Group(f, n) == [i \in 1..n |-> Item(MetricName(i), f[i])]

DataContext(r, p, s, l) == [results |-> r, process |-> p, support |-> s, longterm |-> l]

GroupNames == << "results", "process", "support", "longterm" >>

\* The sizes of the four groups of a context with at most n metrics in all.
Sizes(n) ==
    { t \in (0..n) \X (0..n) \X (0..n) \X (0..n) : t[1] + t[2] + t[3] + t[4] <= n }

\* The context whose only metric is v, in group g.
SingleMetric(g, v) ==
    [h \in { "results", "process", "support", "longterm" } |->
        IF h = g THEN << Item(MetricName(1), v) >> ELSE <<>>]

\* The context of the end-to-end scenario and the empty context.
ScenarioContext ==
    DataContext(<< Item("retention_rate", Float(5600)) >>,
                << Item("visit_frequency", Float(21000)) >>,
                <<>>,
                << Item("market_trend", StrVal("declining")) >>)
EmptyContext == DataContext(<<>>, <<>>, <<>>, <<>>)

\* A dict argument: its items, in insertion order, keys distinct.
Entry(k, v) == [key |-> k, value |-> v]

HasKey(data, k) == \E i \in 1..Len(data) : data[i].key = k

\* data.get(k, {})
Get(data, k) ==
    IF HasKey(data, k)
    THEN data[CHOOSE i \in 1..Len(data) : data[i].key = k].value
    ELSE <<>>

\* A conversion that fills the last group from the key of the third.
from_dict_RepeatedKey(data) ==
    DataContext(Get(data, "results"), Get(data, "process"),
                Get(data, "support"), Get(data, "support"))

\* DataContext.from_dict(data)
from_dict(data) ==
    DataContext(Get(data, "results"), Get(data, "process"),
                Get(data, "support"), Get(data, "longterm"))

\* The data_context argument of analyze: a DataContext or a dict.
AsObject(ctx) == [is_dict |-> FALSE, ctx |-> ctx, dict |-> <<>>]
AsDict(data) == [is_dict |-> TRUE, ctx |-> EmptyContext, dict |-> data]

\* Lines 87-88 of analyze: a dict argument is converted.
Bind(arg) == IF arg.is_dict THEN from_dict(arg.dict) ELSE arg.ctx

ResultsHeader == LineText(<< "[Results]" >>)
ProcessHeader == << <<>>, << "[Process]" >> >>
SupportHeader == << <<>>, << "[Support]" >> >>
LongtermHeader == << <<>>, << "[Long-term]" >> >>

\* f"  - {k}: {...}" with the value already formatted.
MetricLine(k, chars) == LineText(<< "  - ", k, ": " >> \o chars)

\* The value of a results or support metric.
PercentValue(v) == IF IsFloat(v) THEN FormatPercent1(v) ELSE Str(v)
\* The value of a process metric.
DecimalValue(v) == IF IsFloat(v) THEN FormatFixed2(v) ELSE Str(v)
\* The value of a longterm metric.
PlainValue(v) == Str(v)

ResultsLines(g) == [i \in 1..Len(g) |-> MetricLine(g[i].k, PercentValue(g[i].v))]
ProcessLines(g) == [i \in 1..Len(g) |-> MetricLine(g[i].k, DecimalValue(g[i].v))]
\* The support block written with the process block's format.
SupportLines_AsProcess(g) == [i \in 1..Len(g) |-> MetricLine(g[i].k, DecimalValue(g[i].v))]
SupportLines(g) == [i \in 1..Len(g) |-> MetricLine(g[i].k, PercentValue(g[i].v))]
LongtermLines(g) == [i \in 1..Len(g) |-> MetricLine(g[i].k, PlainValue(g[i].v))]

\* A group test that always holds.
Truthy_Always(g) == TRUE

\* if self.<group>: (a dict is true when it is not empty)
Truthy(g) == g # <<>>

\* DataContext.to_formatted_string: the list `lines`, then its join.
FormattedParts(ctx) ==
    (IF Truthy(ctx.results)
        THEN << ResultsHeader >> \o ResultsLines(ctx.results) ELSE <<>>)
    \o (IF Truthy(ctx.process)
        THEN << ProcessHeader >> \o ProcessLines(ctx.process) ELSE <<>>)
    \o (IF Truthy(ctx.support)
        THEN << SupportHeader >> \o SupportLines(ctx.support) ELSE <<>>)
    \o (IF Truthy(ctx.longterm)
        THEN << LongtermHeader >> \o LongtermLines(ctx.longterm) ELSE <<>>)

to_formatted_string(ctx) == JoinNL(FormattedParts(ctx))

\* ----------------------------------------------------- Domain Template
DomainTemplate(d, r, p, s, l, b) ==
    [domain |-> d, results |-> r, process |-> p, support |-> s,
     longterm |-> l, boundaries |-> b, language |-> "Chinese"]

BANKING_TEMPLATE ==
    DomainTemplate("Banking Operations",
        << "completion_rate", "AUM_growth", "customer_retention", "new_customer_acquisition" >>,
        << "visit_frequency", "cross_sell_rate", "quality_score", "conversion_rate" >>,
        << "staffing_ratio", "marketing_coverage", "training_completion", "system_availability" >>,
        << "market_trend", "competitor_entries", "regulatory_changes", "economic_cycle" >>,
        << "Never recommend on personnel matters (hiring, firing, transfers, compensation)",
           "Never make strategic resource allocation decisions",
           "Use hedged language for all inferences" >>)

HEALTHCARE_TEMPLATE ==
    DomainTemplate("Healthcare Operations",
        << "readmission_rate", "patient_satisfaction", "mortality_rate", "length_of_stay" >>,
        << "care_coordination", "treatment_adherence", "diagnostic_accuracy", "follow_up_rate" >>,
        << "nurse_patient_ratio", "equipment_availability", "bed_occupancy", "staff_training" >>,
        << "regulatory_changes", "population_health_trends", "insurance_coverage", "technology_adoption" >>,
        << "Never recommend specific treatment decisions for individual patients",
           "Never suggest specific personnel actions",
           "Use clinical evidence language: 'evidence suggests', 'studies indicate'" >>)

ECOMMERCE_TEMPLATE ==
    DomainTemplate("E-commerce Operations",
        << "conversion_rate", "average_order_value", "customer_lifetime_value", "return_rate" >>,
        << "page_load_time", "checkout_completion", "search_relevance", "recommendation_click_rate" >>,
        << "inventory_availability", "customer_service_capacity", "fulfillment_speed", "platform_uptime" >>,
        << "market_trends", "competitor_pricing", "seasonal_patterns", "consumer_behavior_shifts" >>,
        << "Never recommend specific pricing decisions",
           "Never suggest personnel changes",
           "Use data-driven language with confidence intervals where applicable" >>)

\* Ad hoc templates: the dataclass defaults with the caller's domain label
\* and boundary rules (one-line statements).
RuleTexts ==
    { "Never recommend on personnel matters (hiring, firing, transfers, compensation)",
      "Never make strategic resource allocation decisions",
      "Use hedged language for all inferences" }

RuleLists(n) == UNION { [1..k -> RuleTexts] : k \in 0..n }

AdHocTemplates ==
    { DomainTemplate(d,
        << "completion_rate", "customer_satisfaction" >>,
        << "visit_frequency", "cross_sell_rate", "quality_score" >>,
        << "staffing_ratio", "marketing_coverage", "training_completion" >>,
        << "market_trend", "competitor_entries", "regulatory_changes" >>,
        b) : d \in { "General Business", "Manufacturing Operations" },
             b \in RuleLists(MaxRules) }

Templates == { BANKING_TEMPLATE, HEALTHCARE_TEMPLATE, ECOMMERCE_TEMPLATE } \cup AdHocTemplates

\* A bullet with another marker.
BulletLine_Star(b) == LineText(<< "* ", b >>)

\* f"- {b}"
BulletLine(b) == LineText(<< "- ", b >>)

\* "\n".join(f"- {b}" for b in self.boundaries)
boundary_rules(t) ==
    JoinNL([i \in 1..Len(t.boundaries) |-> BulletLine(t.boundaries[i])])

BoundaryHeading == << "## BOUNDARY CONSTRAINTS (CRITICAL)" >>
HedgedLine ==
    << "- Use HEDGED language: \"indicates\", \"suggests\", \"may reflect\", \"warrants review\"" >>

\* The template text up to and including the boundary heading.
RenderHead(t) ==
    << << "You are a Performance Attribution Agent operating under the 4D-ARE framework." >>,
       << "Domain: ", t.domain >>,
       <<>>,
       << "## CORE PRINCIPLE" >>,
       << "Every performance gap has a causal chain. Your job is to TRACE this chain through 4 dimensions:" >>,
       << "Results -> Process -> Support -> Long-term (Environment)" >>,
       <<>>,
       << "## DIMENSIONAL FRAMEWORK" >>,
       <<>>,
       << "### D_R (Results Dimension)" >>,
       << "- What: Observable outcome metrics" >>,
       << "- Your Authority: DISPLAY ONLY - present the numbers, no interpretation" >>,
       << "- Examples: " >> \o JoinComma(t.results),
       <<>>,
       << "### D_P (Process Dimension)" >>,
       << "- What: Controllable operational factors" >>,
       << "- Your Authority: INTERPRET + RECOMMEND" >>,
       << "- Must explain WHY these factors impact results" >>,
       << "- Must provide SPECIFIC, ACTIONABLE recommendations" >>,
       << "- Examples: " >> \o JoinComma(t.process),
       <<>>,
       << "### D_S (Support Dimension)" >>,
       << "- What: Resource and capability factors" >>,
       << "- Your Authority: DISPLAY + OPEN-ENDED SUGGESTIONS" >>,
       << "- Can suggest areas for management review, but NOT specific actions" >>,
       << "- Examples: " >> \o JoinComma(t.support),
       <<>>,
       << "### D_L (Long-term/Environment Dimension)" >>,
       << "- What: External and structural factors" >>,
       << "- Your Authority: CONTEXT ONLY - no recommendations" >>,
       << "- Present as background that constrains what's possible" >>,
       << "- Examples: " >> \o JoinComma(t.longterm),
       <<>>,
       << "## ATTRIBUTION TRACING PROTOCOL" >>,
       << "When Results show gaps:" >>,
       << "1. First DISPLAY the result gap (D_R)" >>,
       << "2. Then TRACE to Process factors (D_P) - which operational behaviors caused this?" >>,
       << "3. Then TRACE to Support factors (D_S) - what resource constraints contributed?" >>,
       << "4. Finally CONTEXTUALIZE with Long-term factors (D_L) - what environmental factors set the stage?" >>,
       <<>>,
       BoundaryHeading >>

\* The template text after the boundary rules; it ends with a newline.
RenderTail ==
    << HedgedLine,
       << "- ALWAYS distinguish observation from inference" >>,
       << "- If data is missing, explicitly acknowledge it" >>,
       <<>>,
       << "## RESPONSE FORMAT" >>,
       << "Structure your response with clear section headers:" >>,
       << "[](Results - display only)" >>,
       << "[](Process - interpretation + specific recommendations)" >>,
       << "[](Support - context + open suggestions for review)" >>,
       << "[](Long-term - context only)" >>,
       << "[](Synthesis - actionable next steps within your authority)" >>,
       <<>> >>

\* DomainTemplate.render: {boundary_rules} stands on a line of its own.
render(t) == RenderHead(t) \o boundary_rules(t) \o RenderTail

\* "\n\nDATA CONTEXT:\n"
DataDelimiter == << <<>>, <<>>, << "DATA CONTEXT:" >>, <<>> >>

\* A builder that leaves the data block out when there is no data.
build_agent_prompt_SkipsEmptyData(q, data_context_str, t) ==
    [system |-> IF data_context_str = EmptyText THEN render(t)
                ELSE Cat(render(t), Cat(DataDelimiter, data_context_str)),
     user |-> << << "Query: ", q >>,
                 <<>>,
                 << "Provide attribution-complete analysis following the 4D framework." >>,
                 << "Trace the causal chain from results through process to support to long-term factors." >> >>]

\* build_agent_prompt: the pair (system_prompt, user_prompt).
build_agent_prompt(q, data_context_str, t) ==
    [system |-> Cat(render(t), Cat(DataDelimiter, data_context_str)),
     user |-> << << "Query: ", q >>,
                 <<>>,
                 << "Provide attribution-complete analysis following the 4D framework." >>,
                 << "Trace the causal chain from results through process to support to long-term factors." >> >>]

\* ---------------------------------------------------------- the judge
\* The text of a judge answer is the sequence of its JSON tokens (white
\* space carries no meaning in JSON); a string literal is one token.
ScoreKeys ==
    << "causal_chain_completeness", "dimensional_separation",
       "actionability", "boundary_respect" >>

StringLiterals ==
    { ScoreKeys[i] : i \in 1..4 } \cup { "reasoning", "The causal chain is traced." }

\* Scores a judge answer carries (the scale is 0-5).
JudgeScores == { 0, 3, 5 }

IsNumberToken(tok) == \E n \in 0..9 : tok = ToString(n)
NumberOf(tok) == CHOOSE n \in 0..9 : tok = ToString(n)
IsValueToken(tok) == IsNumberToken(tok) \/ tok \in StringLiterals
ValueOfToken(tok) == IF IsNumberToken(tok) THEN IntVal(NumberOf(tok)) ELSE StrVal(tok)

\* name : value , name : value ...
IsMembers(m) ==
    /\ Len(m) % 4 = 3
    /\ \A j \in 1..Len(m) :
          CASE j % 4 = 1 -> m[j] \in StringLiterals
            [] j % 4 = 2 -> m[j] = ":"
            [] j % 4 = 3 -> IsValueToken(m[j])
            [] OTHER -> m[j] = ","

\* value , value ...
IsElements(m) ==
    /\ Len(m) % 2 = 1
    /\ \A j \in 1..Len(m) : IF j % 2 = 1 THEN IsValueToken(m[j]) ELSE m[j] = ","

Inner(text) == SubSeq(text, 2, Len(text) - 1)

IsObjectText(text) ==
    /\ Len(text) >= 2
    /\ text[1] = "{"
    /\ text[Len(text)] = "}"
    /\ Len(text) = 2 \/ IsMembers(Inner(text))

IsArrayText(text) ==
    /\ Len(text) >= 2
    /\ text[1] = "["
    /\ text[Len(text)] = "]"
    /\ Len(text) = 2 \/ IsElements(Inner(text))

IsScalarText(text) == Len(text) = 1 /\ IsValueToken(text[1])

\* The members of an object text, in order.
MembersOf(text) ==
    [j \in 1..(Len(text) \div 4) |-> Entry(text[4 * j - 2], ValueOfToken(text[4 * j]))]

JsonValue(kind, members) == [ok |-> TRUE, kind |-> kind, members |-> members]
JSONDecodeError == [ok |-> FALSE, kind |-> "JSONDecodeError", members |-> <<>>]

\* json.loads(text): the value, or JSONDecodeError.
json_loads(text) ==
    IF IsObjectText(text) THEN JsonValue("object", MembersOf(text))
    ELSE IF IsArrayText(text) THEN JsonValue("array", <<>>)
    ELSE IF IsScalarText(text) THEN JsonValue("scalar", <<>>)
    ELSE JSONDecodeError

\* d.get(k, default) of a dict built from members: the last value given to k.
GetOr(members, k, default) ==
    IF HasKey(members, k)
    THEN LET i == CHOOSE i \in 1..Len(members) :
                      /\ members[i].key = k
                      /\ \A j \in (i + 1)..Len(members) : members[j].key # k
         IN  members[i].value
    ELSE default

\* The dict ExperimentRunner.evaluate_response returns on a parse error.
RunnerDefault ==
    << Entry("causal_chain_completeness", IntVal(0)),
       Entry("dimensional_separation", IntVal(0)),
       Entry("actionability", IntVal(0)),
       Entry("boundary_respect", IntVal(0)),
       Entry("reasoning", StrVal("Failed to parse evaluation response")) >>

\* The dict the experiment driver's evaluate_response falls back to.
DriverDefault ==
    << Entry("causal_chain", IntVal(0)),
       Entry("dim_separation", IntVal(0)),
       Entry("actionability", IntVal(0)),
       Entry("boundary", IntVal(0)),
       Entry("reasoning", StrVal("Evaluation failed")) >>

\* The dict the driver builds from a parsed answer.
DriverScores(members) ==
    << Entry("causal_chain", GetOr(members, "causal_chain_completeness", IntVal(0))),
       Entry("dim_separation", GetOr(members, "dimensional_separation", IntVal(0))),
       Entry("actionability", GetOr(members, "actionability", IntVal(0))),
       Entry("boundary", GetOr(members, "boundary_respect", IntVal(0))),
       Entry("reasoning", GetOr(members, "reasoning", StrVal(""))) >>

\* message.content of the judge's answer: a str or None.
SomeAnswer(text) == [some |-> TRUE, text |-> text]
NoneAnswer == [some |-> FALSE, text |-> <<>>]

\* content or "{}"
AnswerOrEmptyObject(a) == IF a.some /\ a.text # <<>> THEN a.text ELSE << "{", "}" >>

\* An object text with the given names and value tokens.
ObjectText(names, values) ==
    << "{" >>
    \o [j \in 1..(4 * Len(names) - 1) |->
           CASE j % 4 = 1 -> names[(j + 3) \div 4]
             [] j % 4 = 2 -> ":"
             [] j % 4 = 3 -> values[(j + 1) \div 4]
             [] OTHER -> ","]
    \o << "}" >>

\* A complete answer with the four scores s and a reasoning.
ScoredText(s) ==
    ObjectText(ScoreKeys \o << "reasoning" >>,
               [i \in 1..4 |-> ToString(s[i])] \o << "The causal chain is traced." >>)

SampleText == ScoredText([i \in 1..4 |-> 3])

\* Answers that are JSON.
JsonTexts ==
    { ScoredText(s) : s \in [1..4 -> JudgeScores] }
    \cup { << "{", "}" >>,
           ObjectText(<< "reasoning" >>, << "The causal chain is traced." >>),
           ObjectText(<< "actionability", "actionability" >>, << "3", "5" >>),
           << "[", "3", ",", "5", "]" >>,
           << "3" >> }

\* Answers that are not: empty, wrapped in prose or in a code fence, cut off
\* by the token limit, with a trailing comma, with a bare word for a value.
BrokenTexts ==
    { <<>>,
      << "Here are the scores:" >> \o SampleText,
      << "~~~json" >> \o SampleText \o << "~~~" >>,
      SubSeq(SampleText, 1, Len(SampleText) - 1),
      SubSeq(SampleText, 1, 5),
      << "{", "actionability", ":", "3", ",", "}" >>,
      << "{", "actionability", ":", "high", "}" >>,
      << "I cannot evaluate this response." >> }

JudgeAnswers == { SomeAnswer(t) : t \in JsonTexts \cup BrokenTexts } \cup { NoneAnswer }

NoValue == [ok |-> FALSE, kind |-> "", members |-> <<>>]

\* The evaluation before, and between, evaluate_response calls.
NoEvaluation ==
    [pc |-> "Idle", impl |-> "", answer |-> NoneAnswer, value |-> NoValue, raised |-> ""]

\* ------------------------------------------------- AttributionAgent
VARIABLES
    pc,             \* where the current analyze request stands
    callNo,         \* number of analyze calls begun on the agent
    template,       \* self.template
    client_ok,      \* whether OpenAI(...) can be constructed from self.settings
    _client,        \* self._client: "None" or "handle"
    query,          \* the call's query
    data_context,   \* the call's Metric Context
    max_retries,    \* the call's max_retries
    retry_delay,    \* the call's retry_delay
    data_str,       \* local data_str
    system_prompt,  \* local system_prompt
    user_prompt,    \* local user_prompt
    attempt,        \* the loop variable
    outcomes,       \* what each evaluation of the completion call gave, in order
    requests,       \* the requests that reached the remote API, in order
    waits,          \* the arguments of the time.sleep calls, in order
    result,         \* the value analyze returned
    error,          \* the exception analyze raised
    given,          \* the data_context argument as the caller passed it
    renders,        \* what each rendering read and built, over the agent's life
    clients_made,   \* number of OpenAI(...) handles constructed so far
    handles_used,   \* the handles the completion calls went through
    evaluation,     \* the evaluate_response operation of the judge
    last_given,     \* the template argument most recently given to the agent
    calls,          \* the analyze calls that run concurrently, one per thread
    cli,            \* the analyze command of the command line
    driver,         \* the api_call_with_retry operation of the experiment driver
    run,            \* run_all_agents followed by evaluate_all
    demo,           \* the DemoDataServer
    excel,          \* the ExcelDataServer
    db              \* the MySQLDataServer or PostgreSQLDataServer

\* The state of the components other than the agent and the judge.
other_vars == << calls, cli, driver, run, demo, excel, db >>

vars ==
    << pc, callNo, template, client_ok, _client, query, data_context,
       max_retries, retry_delay, data_str, system_prompt, user_prompt,
       attempt, outcomes, requests, waits, result, error,
       given, renders, clients_made, handles_used, evaluation, last_given, other_vars >>

\* self.settings.model_agent
model_agent == "gpt-4o"

\* message.content of the first choice: a str or None.
SomeContent(text) == [some |-> TRUE, text |-> text]
NoneContent == [some |-> FALSE, text |-> ""]

\* What one evaluation of self.client.chat.completions.create(...) followed
\* by response.choices[0].message.content can give.
Response(c) == [kind |-> "response", content |-> c, desc |-> ""]
NoChoices == [kind |-> "no_choices", content |-> NoneContent, desc |-> "list index out of range"]
ApiError(d) == [kind |-> "api_error", content |-> NoneContent, desc |-> d]
ConfigError == [kind |-> "config_error", content |-> NoneContent, desc |-> "client could not be constructed"]

Contents == { SomeContent("analysis"), SomeContent(""), NoneContent }

\* What the remote API can answer to a request.
TransportOutcomes ==
    { Response(c) : c \in Contents }
    \cup { NoChoices, ApiError("Connection error."), ApiError("Rate limit exceeded") }

\* A completion that also rejects a response without text.
IsResponse_NonEmpty(o) == o.kind = "response" /\ o.content.some /\ o.content.text # ""

\* The try body completes (line 110 returns) exactly on these.
IsResponse(o) == o.kind = "response"

\* response.choices[0].message.content or ""
ContentOrEmpty(c) == IF c.some /\ c.text # "" THEN c.text ELSE ""

\* for attempt in range(max_retries): whether index i is in the range.
InRange(i, n) == 0 <= i /\ i < n

\* The comparison taken against max_retries itself.
HasMoreAttempts_OffByOne(a, n) == a < n

\* if attempt < max_retries - 1
HasMoreAttempts(a, n) == a < n - 1

\* Exponential backoff.
RetryWait_Exponential(d, a) == d * (2 ^ a)

\* retry_delay * (attempt + 1)
RetryWait(d, a) == d * (a + 1)

NoResult == [returned |-> FALSE, text |-> ""]
Returned(text) == [returned |-> TRUE, text |-> text]

NoError == [raised |-> FALSE, type |-> "", attempts |-> 0, cause |-> ""]
\* RuntimeError(f"API call failed after {max_retries} attempts: {e}")
RuntimeError(n, e) == [raised |-> TRUE, type |-> "RuntimeError", attempts |-> n, cause |-> e.desc]

Queries == { "Why is customer retention declining?" }
AgentContexts == { ScenarioContext, EmptyContext }

\* A dict argument without the longterm key and with a key that is no group.
PartialDict ==
    << Entry("results", ScenarioContext.results),
       Entry("environment", ScenarioContext.longterm),
       Entry("process", ScenarioContext.process) >>

\* The queries and data_context arguments of a session of analyze calls.
SessionQueries == Queries \cup { "Why did revenue drop in Q3?" }
SessionInputs == { AsObject(ScenarioContext), AsDict(PartialDict) }

\* The defaults of analyze's max_retries and retry_delay parameters.
DefaultMaxRetries == 3
DefaultRetryDelay == 2
AgentTemplates == { BANKING_TEMPLATE, HEALTHCARE_TEMPLATE }

\* The template argument of the constructor and of set_template: a
\* DomainTemplate, or None when the constructor is called without one.
SomeTemplate(t) == [some |-> TRUE, template |-> t]
NoTemplate == [some |-> FALSE, template |-> DomainTemplate("", <<>>, <<>>, <<>>, <<>>, <<>>)]

\* template or BANKING_TEMPLATE
TemplateOr(a) == IF a.some THEN a.template ELSE BANKING_TEMPLATE

\* The threads that call analyze on the one agent, and the locals of a
\* call that has not begun. via is the value the client property returned.
Threads == { 1, 2 }
IdleCall ==
    [pc |-> "Idle", query |-> "", data_context |-> EmptyContext,
     max_retries |-> 0, retry_delay |-> 0,
     system_prompt |-> EmptyText, user_prompt |-> EmptyText,
     attempt |-> 0, outcomes |-> <<>>, requests |-> <<>>, waits |-> <<>>,
     result |-> NoResult, error |-> NoError, via |-> "None"]
NoThreads == [t \in Threads |-> IdleCall]
\* The analyze command of the command line has not been invoked.
NoCommand == [pc |-> "Idle", template |-> <<>>, has_file |-> FALSE]
\* api_call_with_retry has not been called. result is the value returned:
\* a message content (a str or None), or the None of the last line.
NoApiCall ==
    [pc |-> "Idle", model |-> "", json_mode |-> FALSE, attempt |-> 0,
     outcomes |-> <<>>, requests |-> <<>>, waits |-> <<>>, result |-> NoneContent]
\* run_all_agents has not been called. i and k are the positions of the
\* two loops, results the dict being built, rows evaluate_all's rows.
NoRun ==
    [pc |-> "Idle", scenarios |-> <<>>, i |-> 1, k |-> 1,
     results |-> [t \in { "naive", "structure", "4d-are" } |-> <<>>],
     rows |-> <<>>, raised |-> ""]
\* No DemoDataServer has been constructed.
NoDemoServer ==
    [exists |-> FALSE, scenario |-> "", data |-> EmptyContext, raised |-> "", log |-> <<>>]
\* A file on disk: absent, or present with a content. The content "corrupt"
\* is one that pandas cannot parse.
NoFile == [exists |-> FALSE, content |-> ""]
File(c) == [exists |-> TRUE, content |-> c]

\* self._data_cache: None, or the parsed content of the file.
NoCache == [some |-> FALSE, content |-> ""]
Cached(c) == [some |-> TRUE, content |-> c]

\* No ExcelDataServer has been constructed.
NoExcelServer ==
    [exists |-> FALSE, ext |-> "", file |-> NoFile, _data_cache |-> NoCache,
     reads |-> 0, n |-> 0, last |-> "", returned |-> "", raised |-> ""]
\* No database server object has been constructed. _connection is "None",
\* or a connection object that is "live", "lost" (the database dropped it
\* and the object has not noticed) or "broken" (known to be closed).
NoDbServer ==
    [exists |-> FALSE, kind |-> "", _connection |-> "None", reachable |-> TRUE,
     in_with |-> FALSE, opened |-> 0, closed |-> 0, disconnects |-> 0,
     n |-> 0, last |-> "", raised |-> ""]

\* No other component has been used.
OthersIdle ==
    /\ calls = NoThreads
    /\ cli = NoCommand
    /\ driver = NoApiCall
    /\ run = NoRun
    /\ demo = NoDemoServer
    /\ excel = NoExcelServer
    /\ db = NoDbServer

\* Lines 41-55: the agent after AttributionAgent(settings, template) with
\* the template argument a, before any call.
Constructed(a, ok) ==
    /\ pc = "Idle"
    /\ callNo = 0
    /\ template = TemplateOr(a)
    /\ client_ok = ok
    /\ _client = "None"
    /\ query = ""
    /\ data_context = EmptyContext
    /\ max_retries = 3
    /\ retry_delay = 2
    /\ data_str = EmptyText
    /\ system_prompt = EmptyText
    /\ user_prompt = EmptyText
    /\ attempt = 0
    /\ outcomes = <<>>
    /\ requests = <<>>
    /\ waits = <<>>
    /\ result = NoResult
    /\ error = NoError
    /\ given = AsObject(EmptyContext)
    /\ renders = <<>>
    /\ clients_made = 0
    /\ handles_used = {}
    /\ evaluation = NoEvaluation
    /\ last_given = a
    /\ OthersIdle

\* The agent constructed with the template t.
AgentInit(t, ok) == Constructed(SomeTemplate(t), ok)

Init == \E t \in AgentTemplates, ok \in BOOLEAN : AgentInit(t, ok)

\* analyze is called: its arguments are bound (a dict argument is converted
\* by DataContext.from_dict) and the rendering begins.
Enter(q, arg, n, d) ==
    /\ pc \in { "Idle", "Succeeded", "Failed" }
    /\ pc' = "Rendering"
    /\ callNo' = callNo + 1
    /\ query' = q
    /\ given' = arg
    /\ data_context' = Bind(arg)
    /\ max_retries' = n
    /\ retry_delay' = d
    /\ data_str' = EmptyText
    /\ system_prompt' = EmptyText
    /\ user_prompt' = EmptyText
    /\ attempt' = 0
    /\ outcomes' = <<>>
    /\ requests' = <<>>
    /\ waits' = <<>>
    /\ result' = NoResult
    /\ error' = NoError
    /\ UNCHANGED << template, client_ok, _client, renders, clients_made,
                    handles_used, evaluation, last_given, other_vars >>

Analyze ==
    /\ callNo < MaxAnalyzeCalls
    /\ \E q \in Queries, ctx \in AgentContexts, n \in -1..MaxRetries, d \in 0..MaxDelay :
          Enter(q, AsObject(ctx), n, d)

\* set_template(template), between analyze calls.
\* A set_template that records its argument without installing it.
set_template_NotInstalled(t) ==
    /\ pc \in { "Idle", "Succeeded", "Failed" }
    /\ last_given' = SomeTemplate(t)
    /\ UNCHANGED << pc, callNo, template, client_ok, _client, query, data_context,
                    max_retries, retry_delay, data_str, system_prompt, user_prompt,
                    attempt, outcomes, requests, waits, result, error,
                    given, renders, clients_made, handles_used, evaluation, other_vars >>

set_template(t) ==
    /\ pc \in { "Idle", "Succeeded", "Failed" }
    /\ template' = t
    /\ last_given' = SomeTemplate(t)
    /\ UNCHANGED << pc, callNo, client_ok, _client, query, data_context,
                    max_retries, retry_delay, data_str, system_prompt, user_prompt,
                    attempt, outcomes, requests, waits, result, error,
                    given, renders, clients_made, handles_used, evaluation, other_vars >>

SetTemplate == \E t \in AgentTemplates : set_template(t)

\* The loop header at index i: the body is entered when i is in the range,
\* otherwise the loop is over and line 118 returns "".
LoopHeader(i) ==
    IF InRange(i, max_retries)
    THEN /\ pc' = "Requesting"
         /\ attempt' = i
         /\ result' = result
    ELSE /\ pc' = "Succeeded"
         /\ attempt' = attempt
         /\ result' = Returned("")

\* What one rendering read and what it built.
Rendering(t, q, ctx, d, prompts) ==
    [template |-> t, query |-> q, data_context |-> ctx, data_str |-> d,
     system |-> prompts.system, user |-> prompts.user]

\* A rendering whose formatter keeps its list of lines from one call to the
\* next (a list shared between calls).
Render_SharedLines ==
    /\ pc = "Rendering"
    /\ LET lines == IF renders = <<>> THEN to_formatted_string(data_context)
                    ELSE renders[Len(renders)].data_str \o to_formatted_string(data_context)
           prompts == build_agent_prompt(query, lines, template)
       IN  /\ data_str' = lines
           /\ system_prompt' = prompts.system
           /\ user_prompt' = prompts.user
           /\ renders' = Append(renders,
                  Rendering(template, query, data_context, lines, prompts))
    /\ LoopHeader(0)
    /\ UNCHANGED << callNo, template, client_ok, _client, query, data_context,
                    max_retries, retry_delay, outcomes, requests, waits, error,
                    given, clients_made, handles_used, evaluation, last_given, other_vars >>

\* A rendering that formats only the metrics the template lists.
Render_ListedOnly ==
    /\ pc = "Rendering"
    /\ LET Listed(g) ==
               LET Known(it) == \E i \in 1..Len(template[g]) : template[g][i] = it.k
               IN  SelectSeq(data_context[g], Known)
           listed == DataContext(Listed("results"), Listed("process"),
                                 Listed("support"), Listed("longterm"))
           prompts == build_agent_prompt(query, to_formatted_string(listed), template)
       IN  /\ data_str' = to_formatted_string(listed)
           /\ system_prompt' = prompts.system
           /\ user_prompt' = prompts.user
           /\ renders' = Append(renders,
                  Rendering(template, query, data_context,
                            to_formatted_string(listed), prompts))
    /\ LoopHeader(0)
    /\ UNCHANGED << callNo, template, client_ok, _client, query, data_context,
                    max_retries, retry_delay, outcomes, requests, waits, error,
                    given, clients_made, handles_used, evaluation, last_given, other_vars >>

\* Lines 91-99: the prompts are built and the loop is entered.
Render ==
    /\ pc = "Rendering"
    /\ data_str' = to_formatted_string(data_context)
    /\ LET prompts == build_agent_prompt(query, to_formatted_string(data_context), template)
       IN  /\ system_prompt' = prompts.system
           /\ user_prompt' = prompts.user
           /\ renders' = Append(renders,
                  Rendering(template, query, data_context,
                            to_formatted_string(data_context), prompts))
    /\ LoopHeader(0)
    /\ UNCHANGED << callNo, template, client_ok, _client, query, data_context,
                    max_retries, retry_delay, outcomes, requests, waits, error,
                    given, clients_made, handles_used, evaluation, last_given, other_vars >>

\* A request that also carries the user message of the call before.
Request_WithHistory ==
    [model |-> model_agent,
     messages |-> << [role |-> "system", content |-> system_prompt] >>
                  \o (IF Len(renders) > 1
                      THEN << [role |-> "user", content |-> renders[Len(renders) - 1].user] >>
                      ELSE <<>>)
                  \o << [role |-> "user", content |-> user_prompt] >>]

\* The request of lines 101-109.
Request == 
    [model |-> model_agent,
     messages |-> << [role |-> "system", content |-> system_prompt],
                     [role |-> "user", content |-> user_prompt] >>]

\* A handler that gives up at once on a response without choices.
Handler_MalformedIsFatal(e) ==
    IF HasMoreAttempts(attempt, max_retries) /\ e.kind # "no_choices"
    THEN /\ waits' = Append(waits, RetryWait(retry_delay, attempt))
         /\ pc' = "Retrying"
         /\ error' = error
    ELSE /\ waits' = waits
         /\ pc' = "Failed"
         /\ error' = RuntimeError(max_retries, e)

\* A handler that reports the first failure of the call.
Handler_FirstFailure(e) ==
    IF HasMoreAttempts(attempt, max_retries)
    THEN /\ waits' = Append(waits, RetryWait(retry_delay, attempt))
         /\ pc' = "Retrying"
         /\ error' = error
    ELSE /\ waits' = waits
         /\ pc' = "Failed"
         /\ error' = RuntimeError(max_retries, IF outcomes = <<>> THEN e ELSE outcomes[1])

\* A handler that sleeps after every failure, the last one included.
Handler_SleepsBeforeRaising(e) ==
    /\ waits' = Append(waits, RetryWait(retry_delay, attempt))
    /\ IF HasMoreAttempts(attempt, max_retries)
       THEN /\ pc' = "Retrying"
            /\ error' = error
       ELSE /\ pc' = "Failed"
            /\ error' = RuntimeError(max_retries, e)

\* Lines 112-116: the handler of an attempt that raised e.
Handler(e) ==
    IF HasMoreAttempts(attempt, max_retries)
    THEN /\ waits' = Append(waits, RetryWait(retry_delay, attempt))
         /\ pc' = "Retrying"
         /\ error' = error
    ELSE /\ waits' = waits
         /\ pc' = "Failed"
         /\ error' = RuntimeError(max_retries, e)

\* A client property that constructs a handle at every read.
NeedsClient_Always(c) == TRUE

\* if self._client is None
NeedsClient(c) == c = "None"

\* Lines 100-116, one attempt whose completion call gives o: the client
\* property is read first (a handle is constructed when none is cached), the
\* request is sent, and the response is returned or the exception handled.
Attempt(o) ==
    /\ pc = "Requesting"
    /\ outcomes' = Append(outcomes, o)
    /\ IF o = ConfigError
       THEN /\ NeedsClient(_client)
            /\ ~client_ok
            /\ UNCHANGED << _client, requests, clients_made, handles_used >>
       ELSE /\ NeedsClient(_client) => client_ok
            /\ _client' = "handle"
            /\ clients_made' = IF NeedsClient(_client) THEN clients_made + 1
                               ELSE clients_made
            /\ handles_used' = handles_used \cup { clients_made' }
            /\ requests' = Append(requests, Request)
    /\ IF IsResponse(o)
       THEN /\ pc' = "Succeeded"
            /\ result' = Returned(ContentOrEmpty(o.content))
            /\ UNCHANGED << waits, error >>
       ELSE /\ Handler(o)
            /\ result' = result
    /\ UNCHANGED << callNo, template, client_ok, query, data_context, max_retries,
                    retry_delay, data_str, system_prompt, user_prompt, attempt,
                    given, renders, evaluation, last_given, other_vars >>

Call == \E o \in TransportOutcomes \cup { ConfigError } : Attempt(o)

\* A retry that drops the cached handle, so that the next attempt makes one.
Wake_DropsClient ==
    /\ pc = "Retrying"
    /\ LoopHeader(attempt + 1)
    /\ _client' = "None"
    /\ UNCHANGED << callNo, template, client_ok, query, data_context,
                    max_retries, retry_delay, data_str, system_prompt, user_prompt,
                    outcomes, requests, waits, error,
                    given, renders, clients_made, handles_used, evaluation, last_given, other_vars >>

\* A retry that goes back to the index it came from.
Wake_SameIndex ==
    /\ pc = "Retrying"
    /\ LoopHeader(attempt)
    /\ UNCHANGED << callNo, template, client_ok, _client, query, data_context,
                    max_retries, retry_delay, data_str, system_prompt, user_prompt,
                    outcomes, requests, waits, error,
                    given, renders, clients_made, handles_used, evaluation, last_given, other_vars >>

\* A retry that marks the user message as a retry before sending it again.
Wake_AltersRequest ==
    /\ pc = "Retrying"
    /\ LoopHeader(attempt + 1)
    /\ user_prompt' = user_prompt \o << << "(retry)" >> >>
    /\ UNCHANGED << callNo, template, client_ok, _client, query, data_context,
                    max_retries, retry_delay, data_str, system_prompt,
                    outcomes, requests, waits, error,
                    given, renders, clients_made, handles_used, evaluation, last_given, other_vars >>

\* time.sleep returns and the loop goes to its next index.
Wake ==
    /\ pc = "Retrying"
    /\ LoopHeader(attempt + 1)
    /\ UNCHANGED << callNo, template, client_ok, _client, query, data_context,
                    max_retries, retry_delay, data_str, system_prompt, user_prompt,
                    outcomes, requests, waits, error,
                    given, renders, clients_made, handles_used, evaluation, last_given, other_vars >>

Next == Analyze \/ Render \/ Call \/ Wake

Spec == Init /\ [][Next]_vars

\* analyze(query, data_context, max_retries=n), for every n of the bound.
AnalyzeRetries ==
    /\ callNo < MaxAnalyzeCalls
    /\ \E q \in Queries, n \in -1..MaxRetries :
          Enter(q, AsObject(ScenarioContext), n, DefaultRetryDelay)

NextFair == AnalyzeRetries \/ Render \/ Call \/ Wake

\* The call runs in one thread: the rendering is followed by the loop, a
\* completion call returns or raises, and a time.sleep returns.
FairSpec ==
    /\ Init
    /\ [][NextFair]_vars
    /\ WF_vars(Render) /\ WF_vars(Call) /\ WF_vars(Wake)

\* ------------------------------------------ a session on one agent
\* analyze(query, data_context) with the default max_retries and retry_delay.
AnalyzeDefault ==
    /\ callNo < MaxAnalyzeCalls
    /\ \E q \in SessionQueries, arg \in SessionInputs :
          Enter(q, arg, DefaultMaxRetries, DefaultRetryDelay)

ConstructorArgs == { NoTemplate } \cup { SomeTemplate(t) : t \in AgentTemplates }

InitSession == \E a \in ConstructorArgs : Constructed(a, TRUE)

NextSession == AnalyzeDefault \/ SetTemplate \/ Render \/ Call \/ Wake

\* analyze calls and set_template calls, in sequence, on one agent.
SpecSession == InitSession /\ [][NextSession]_vars

\* ------------------------------------------------ dict arguments
DictKeys == << "results", "process", "support", "longterm", "environment" >>

\* The value a generated dict gives to its i-th key, when not empty.
KeyGroup(i) == << Item(DictKeys[i] \o "_metric", Float(5600)) >>

Presence == { "absent", "empty", "filled" }

RECURSIVE DictFrom(_, _)
\* The dict whose keys, from the i-th on, are present as c says.
DictFrom(c, i) ==
    IF i > Len(DictKeys) THEN <<>>
    ELSE (IF c[i] = "absent" THEN <<>>
          ELSE << Entry(DictKeys[i], IF c[i] = "filled" THEN KeyGroup(i) ELSE <<>>) >>)
         \o DictFrom(c, i + 1)

DictInputs == { DictFrom(c, 1) : c \in [1..Len(DictKeys) -> Presence] }

\* A first analyze call, given a dict.
AnalyzeDict ==
    /\ callNo = 0
    /\ \E q \in Queries, data \in DictInputs :
          Enter(q, AsDict(data), DefaultMaxRetries, DefaultRetryDelay)

InitFromDict == AgentInit(BANKING_TEMPLATE, TRUE)

NextFromDict == AnalyzeDict \/ Render

\* The conversion of a dict argument, over every dict of the bound.
SpecFromDict == InitFromDict /\ [][NextFromDict]_vars

\* ------------------------------------------------- evaluate_response
agent_vars ==
    << pc, callNo, template, client_ok, _client, query, data_context,
       max_retries, retry_delay, data_str, system_prompt, user_prompt,
       attempt, outcomes, requests, waits, result, error,
       given, renders, clients_made, handles_used, last_given >>

\* evaluate_response is entered: impl "runner" is
\* ExperimentRunner.evaluate_response, "driver" the experiment driver's.
EnterEvaluation(impl) ==
    /\ evaluation.pc \in { "Idle", "Done", "Raised" }
    /\ evaluation' = [NoEvaluation EXCEPT !.pc = "Judging", !.impl = impl]
    /\ UNCHANGED << agent_vars, other_vars >>

Evaluate == \E impl \in { "runner", "driver" } : EnterEvaluation(impl)

\* The judge call returns a response whose first choice has content a.
JudgeReturns(a) ==
    /\ evaluation.pc = "Judging"
    /\ evaluation' = [evaluation EXCEPT !.pc = "Parsing", !.answer = a]
    /\ UNCHANGED << agent_vars, other_vars >>

JudgeAnswer == \E a \in JudgeAnswers : JudgeReturns(a)

\* The judge call raises e, or its response has no choices (IndexError).
\* The runner's call is outside its try block and its handler takes
\* JSONDecodeError only, so e leaves evaluate_response; the driver's
\* api_call_with_retry gives None once its attempts are used up.
JudgeRaises(e) ==
    /\ evaluation.pc = "Judging"
    /\ evaluation' =
          IF evaluation.impl = "runner"
          THEN [evaluation EXCEPT !.pc = "Raised", !.raised = e]
          ELSE [evaluation EXCEPT !.pc = "Parsing", !.answer = NoneAnswer]
    /\ UNCHANGED << agent_vars, other_vars >>

JudgeFailure == \E e \in { "APIError", "IndexError" } : JudgeRaises(e)

Done(v) == [evaluation EXCEPT !.pc = "Done", !.value = v]
Raised(e) == [evaluation EXCEPT !.pc = "Raised", !.raised = e]

\* agent.py lines 287-296.
RunnerParse ==
    LET v == json_loads(AnswerOrEmptyObject(evaluation.answer))
    IN  IF v.ok THEN Done(v) ELSE Done(JsonValue("object", RunnerDefault))

\* experiment.py lines 189-208.
DriverParse ==
    LET a == evaluation.answer
    IN  IF a.some /\ a.text # <<>>
        THEN LET v == json_loads(a.text)
             IN  IF ~v.ok THEN Done(JsonValue("object", DriverDefault))
                 ELSE IF v.kind = "object"
                      THEN Done(JsonValue("object", DriverScores(v.members)))
                      ELSE Raised("AttributeError")
        ELSE Done(JsonValue("object", DriverDefault))

\* The answer is parsed and evaluate_response returns, or raises.
Parse ==
    /\ evaluation.pc = "Parsing"
    /\ evaluation' = IF evaluation.impl = "runner" THEN RunnerParse ELSE DriverParse
    /\ UNCHANGED << agent_vars, other_vars >>

InitJudge == AgentInit(BANKING_TEMPLATE, TRUE)

NextJudge == Evaluate \/ JudgeAnswer \/ JudgeFailure \/ Parse

SpecJudge == InitJudge /\ [][NextJudge]_vars

\* --------------------------------------------- rendering, on its own
\* The state in which a first analyze(q, ctx) call, with the default
\* max_retries and retry_delay, begins rendering on an agent with template t.
Entered(t, q, ctx) ==
    /\ pc = "Rendering"
    /\ callNo = 1
    /\ template = t
    /\ client_ok = TRUE
    /\ _client = "None"
    /\ query = q
    /\ data_context = ctx
    /\ max_retries = 3
    /\ retry_delay = 2
    /\ data_str = EmptyText
    /\ system_prompt = EmptyText
    /\ user_prompt = EmptyText
    /\ attempt = 0
    /\ outcomes = <<>>
    /\ requests = <<>>
    /\ waits = <<>>
    /\ result = NoResult
    /\ error = NoError
    /\ given = AsObject(ctx)
    /\ renders = <<>>
    /\ clients_made = 0
    /\ handles_used = {}
    /\ evaluation = NoEvaluation
    /\ last_given = SomeTemplate(t)
    /\ OthersIdle

NextRender == Render

\* The formatter over every Metric Context of the bound.
InitFormat ==
    \E q \in Queries :
        \/ \E t \in Sizes(MaxMetrics) :
             \E fr \in [1..t[1] -> CoreValues], fp \in [1..t[2] -> CoreValues],
                fs \in [1..t[3] -> CoreValues], fl \in [1..t[4] -> CoreValues] :
                Entered(BANKING_TEMPLATE, q,
                        DataContext(Group(fr, t[1]), Group(fp, t[2]),
                                    Group(fs, t[3]), Group(fl, t[4])))
        \/ \E g \in { "results", "process", "support", "longterm" }, v \in MetricValues :
             Entered(BANKING_TEMPLATE, q, SingleMetric(g, v))
        \/ Entered(BANKING_TEMPLATE, q, ScenarioContext)

SpecFormat == InitFormat /\ [][NextRender]_vars

\* The template renderer over every Domain Template of the bound.
InitTemplate ==
    \E t \in Templates, q \in Queries, ctx \in AgentContexts : Entered(t, q, ctx)

SpecTemplate == InitTemplate /\ [][NextRender]_vars

\* ====================================================== the demo data server
\* DEMO_SCENARIOS, each group represented by its first metric.
DEMO_SCENARIOS ==
    [banking_retention |->
        [name |-> "Banking Customer Retention",
         data |-> DataContext(<< Item("retention_rate", Float(5600)) >>,
                              << Item("visit_frequency", Float(21000)) >>,
                              << Item("staffing_ratio", Float(6800)) >>,
                              << Item("market_trend", StrVal("declining")) >>)],
     banking_aum |->
        [name |-> "Banking AUM Growth",
         data |-> DataContext(<< Item("aum_growth", Float(200)) >>,
                              << Item("advisor_meetings", Float(32000)) >>,
                              << Item("advisor_capacity", Float(9200)) >>,
                              << Item("interest_rate_trend", StrVal("rising")) >>)],
     healthcare_readmission |->
        [name |-> "Healthcare Readmission Rate",
         data |-> DataContext(<< Item("readmission_rate_30d", Float(1800)) >>,
                              << Item("discharge_planning_score", Float(7200)) >>,
                              << Item("nurse_patient_ratio", Float(1923)) >>,
                              << Item("population_aging", StrVal("accelerating")) >>)]]

\* The scenario names a caller passes: the three of DEMO_SCENARIOS, the empty
\* name and a name of no scenario.
ScenarioNames == DOMAIN DEMO_SCENARIOS \cup { "", "retail_churn" }

demo_frame == << agent_vars, evaluation, calls, cli, driver, run, excel, db >>

\* DemoDataServer(name): lines 124-134.
DemoConstruct(name) ==
    /\ ~demo.exists
    /\ Len(demo.log) < MaxServerCalls
    /\ demo' = IF name \notin DOMAIN DEMO_SCENARIOS
               THEN [demo EXCEPT !.raised = "ValueError",
                                 !.log = Append(@, [op |-> "__init__", arg |-> name])]
               ELSE [exists |-> TRUE,
                     scenario |-> name,
                     data |-> DEMO_SCENARIOS[name].data,
                     raised |-> "",
                     log |-> Append(demo.log, [op |-> "__init__", arg |-> name])]
    /\ UNCHANGED demo_frame

DemoDataServer == \E name \in ScenarioNames : DemoConstruct(name)

\* A set_scenario that assigns the name before it looks the name up.
set_scenario_AssignsFirst(name) ==
    /\ demo.exists
    /\ Len(demo.log) < MaxServerCalls
    /\ demo' = IF name \notin DOMAIN DEMO_SCENARIOS
               THEN [demo EXCEPT !.scenario = name,
                                 !.raised = "ValueError",
                                 !.log = Append(@, [op |-> "set_scenario", arg |-> name])]
               ELSE [demo EXCEPT !.scenario = name,
                                 !.data = DEMO_SCENARIOS[name].data,
                                 !.raised = "",
                                 !.log = Append(@, [op |-> "set_scenario", arg |-> name])]
    /\ UNCHANGED demo_frame

\* set_scenario(name): lines 163-168.
set_scenario(name) ==
    /\ demo.exists
    /\ Len(demo.log) < MaxServerCalls
    /\ demo' = IF name \notin DOMAIN DEMO_SCENARIOS
               THEN [demo EXCEPT !.raised = "ValueError",
                                 !.log = Append(@, [op |-> "set_scenario", arg |-> name])]
               ELSE [demo EXCEPT !.scenario = name,
                                 !.data = DEMO_SCENARIOS[name].data,
                                 !.raised = "",
                                 !.log = Append(@, [op |-> "set_scenario", arg |-> name])]
    /\ UNCHANGED demo_frame

SetScenario == \E name \in ScenarioNames : set_scenario(name)

InitDemo == AgentInit(BANKING_TEMPLATE, TRUE)
NextDemo == DemoDataServer \/ SetScenario
SpecDemo == InitDemo /\ [][NextDemo]_vars

\* ====================================================== the spreadsheet server
FileContents == { "v1", "v2", "corrupt" }
FileStates == { NoFile } \cup { File(c) : c \in FileContents }
Extensions == { ".csv", ".xlsx", ".txt" }
Dimensions == { "results", "process", "support", "longterm" }
Getters == { "get_" \o d \o "_metrics" : d \in Dimensions } \cup { "get_all_metrics" }

excel_frame == << agent_vars, evaluation, calls, cli, driver, run, demo, db >>

\* ExcelDataServer(file_path): lines 57-77.
ExcelConstruct(ext) ==
    /\ ~excel.exists
    /\ excel' = [excel EXCEPT !.exists = TRUE, !.ext = ext, !._data_cache = NoCache]
    /\ UNCHANGED excel_frame

ExcelDataServer == \E ext \in Extensions : ExcelConstruct(ext)

\* Another program writes, replaces or removes the file.
FileChanges ==
    /\ \E f \in FileStates \ { excel.file } : excel' = [excel EXCEPT !.file = f]
    /\ UNCHANGED excel_frame

\* A loader that reads the file at every call.
_load_data_IgnoresCache(s) ==
    IF ~s.file.exists
    THEN [s EXCEPT !.raised = "FileNotFoundError"]
    ELSE IF s.ext \notin { ".csv", ".xlsx", ".xls" }
    THEN [s EXCEPT !.raised = "ValueError"]
    ELSE IF s.file.content = "corrupt"
    THEN [s EXCEPT !.raised = "ParserError", !.reads = @ + 1]
    ELSE [s EXCEPT !.raised = "", !.reads = @ + 1, !._data_cache = Cached(s.file.content)]

\* _load_data, lines 100-118: the server after the call; raised names the
\* exception, and the value returned is the cache.
_load_data(s) ==
    IF s._data_cache.some
    THEN [s EXCEPT !.raised = ""]
    ELSE IF ~s.file.exists
    THEN [s EXCEPT !.raised = "FileNotFoundError"]
    ELSE IF s.ext \notin { ".csv", ".xlsx", ".xls" }
    THEN [s EXCEPT !.raised = "ValueError"]
    ELSE IF s.file.content = "corrupt"
    THEN [s EXCEPT !.raised = "ParserError", !.reads = @ + 1]
    ELSE [s EXCEPT !.raised = "", !.reads = @ + 1, !._data_cache = Cached(s.file.content)]

\* What an operation that ran to its end leaves: its name, and the value it
\* returned ("" when it raised).
Finished(s, op, value) ==
    [s EXCEPT !.n = @ + 1, !.last = op, !.returned = IF s.raised = "" THEN value ELSE ""]

\* get_results_metrics ... get_all_metrics, lines 221-243: the part of the
\* loaded data the getter selects, named by the getter and the content.
ExcelGet(op) ==
    /\ excel.exists
    /\ excel.n < MaxServerCalls
    /\ LET s == _load_data(excel)
       IN  excel' = Finished(s, op, op \o ":" \o s._data_cache.content)
    /\ UNCHANGED excel_frame

ExcelGetter == \E op \in Getters : ExcelGet(op)

\* reload, lines 216-219.
ExcelReload ==
    /\ excel.exists
    /\ excel.n < MaxServerCalls
    /\ LET s == _load_data([excel EXCEPT !._data_cache = NoCache])
       IN  excel' = Finished(s, "reload", "None")
    /\ UNCHANGED excel_frame

\* query_custom, lines 245-261: the file is read by pandas at every call and
\* the cache is neither used nor set.
ExcelQueryCustom ==
    /\ excel.exists
    /\ excel.n < MaxServerCalls
    /\ LET s == IF ~excel.file.exists
                THEN [excel EXCEPT !.raised = "FileNotFoundError"]
                ELSE IF excel.ext = ".txt" \/ excel.file.content = "corrupt"
                THEN [excel EXCEPT !.raised = "ParserError", !.reads = @ + 1]
                ELSE [excel EXCEPT !.raised = "", !.reads = @ + 1]
       IN  excel' = Finished(s, "query_custom", "rows:" \o s.file.content)
    /\ UNCHANGED excel_frame

InitExcel == AgentInit(BANKING_TEMPLATE, TRUE)
NextExcel == ExcelDataServer \/ FileChanges \/ ExcelGetter \/ ExcelReload \/ ExcelQueryCustom
SpecExcel == InitExcel /\ [][NextExcel]_vars

\* ====================================================== the database servers
DbKinds == { "mysql", "postgres" }
QueryOps == Getters \cup { "query_custom" }

db_frame == << agent_vars, evaluation, calls, cli, driver, run, demo, excel >>

\* MySQLDataServer(...) or PostgreSQLDataServer(...): self._connection = None.
DbConstruct(kind) ==
    /\ ~db.exists
    /\ db' = [db EXCEPT !.exists = TRUE, !.kind = kind, !._connection = "None"]
    /\ UNCHANGED db_frame

DbServer == \E kind \in DbKinds : DbConstruct(kind)

\* The database becomes unreachable or reachable again.
ReachabilityChanges ==
    /\ db' = [db EXCEPT !.reachable = ~@]
    /\ UNCHANGED db_frame

\* The database drops the connection.
ConnectionDrops ==
    /\ db._connection = "live"
    /\ db' = [db EXCEPT !._connection = "lost"]
    /\ UNCHANGED db_frame

\* connect: mysql lines 95-106, postgres lines 97-108.
connect(s) ==
    IF s.reachable
    THEN [s EXCEPT !._connection = "live", !.opened = @ + 1, !.raised = ""]
    ELSE [s EXCEPT !.raised = "ConnectionError"]

\* disconnect: mysql lines 108-112 (closes a connection that is_connected()),
\* postgres lines 110-114 (closes whatever connection object there is).
disconnect(s) ==
    LET called == [s EXCEPT !.disconnects = @ + 1, !.raised = ""]
    IN  IF s.kind = "mysql"
        THEN IF s._connection = "live"
             THEN [called EXCEPT !._connection = "None", !.closed = @ + 1]
             ELSE called
        ELSE IF s._connection # "None"
             THEN [called EXCEPT !._connection = "None", !.closed = @ + 1]
             ELSE called

\* self._connection.is_connected() of mysql, which asks the database, and
\* not self._connection.closed of postgres, which is the object's belief.
Usable(s) ==
    IF s.kind = "mysql" THEN s._connection = "live"
    ELSE s._connection \in { "live", "lost" }

\* An _ensure_connected that connects only when there is no connection object.
_ensure_connected_OnlyIfNone(s) ==
    IF s._connection = "None" THEN connect(s) ELSE [s EXCEPT !.raised = ""]

\* _ensure_connected: mysql lines 114-117, postgres lines 116-119.
_ensure_connected(s) ==
    IF s._connection = "None" \/ ~Usable(s) THEN connect(s) ELSE [s EXCEPT !.raised = ""]

\* The statement is executed on the connection: on one the database dropped
\* the driver raises and the object knows it is broken.
Execute(s) ==
    IF s._connection = "live" THEN s
    ELSE [s EXCEPT !.raised = "OperationalError", !._connection = "broken"]

\* An exception that leaves the body of a with-block runs __exit__, which
\* calls disconnect and lets the exception go on.
Propagate(s) ==
    IF s.in_with /\ s.raised # ""
    THEN [disconnect(s) EXCEPT !.in_with = FALSE, !.raised = s.raised]
    ELSE s

Ran(s, op) == [s EXCEPT !.n = @ + 1, !.last = op]

\* get_*_metrics, get_all_metrics, query_custom: mysql lines 119-197,
\* postgres lines 121-195.
DbQuery(op) ==
    /\ db.exists
    /\ db.n < MaxServerCalls
    /\ LET s == _ensure_connected(db)
       IN  db' = Ran(Propagate(IF s.raised # "" THEN s ELSE Execute(s)), op)
    /\ UNCHANGED db_frame

DbQueries == \E op \in QueryOps : DbQuery(op)

DbConnect ==
    /\ db.exists
    /\ db.n < MaxServerCalls
    /\ db' = Ran(Propagate(connect(db)), "connect")
    /\ UNCHANGED db_frame

DbDisconnect ==
    /\ db.exists
    /\ db.n < MaxServerCalls
    /\ db' = Ran(disconnect(db), "disconnect")
    /\ UNCHANGED db_frame

\* __enter__: mysql lines 199-201, postgres lines 197-199. When connect
\* raises the block is not entered.
EnterWith ==
    /\ db.exists
    /\ ~db.in_with
    /\ db.n < MaxServerCalls
    /\ LET s == connect(db)
       IN  db' = Ran([s EXCEPT !.in_with = (s.raised = "")], "__enter__")
    /\ UNCHANGED db_frame

\* __exit__: mysql lines 203-204, postgres lines 201-202, at the end of the
\* block (e = "") or when the body raised e.
LeaveWith(e) ==
    /\ db.exists
    /\ db.in_with
    /\ db' = Ran([disconnect(db) EXCEPT !.in_with = FALSE, !.raised = e], "__exit__")
    /\ UNCHANGED db_frame

ExitWith == \E e \in { "", "KeyError" } : LeaveWith(e)

InitDb == AgentInit(BANKING_TEMPLATE, TRUE)
NextDb ==
    \/ DbServer
    \/ ReachabilityChanges
    \/ ConnectionDrops
    \/ DbQueries
    \/ DbConnect
    \/ DbDisconnect
    \/ EnterWith
    \/ ExitWith
SpecDb == InitDb /\ [][NextDb]_vars

\* ====================================================== the command line
\* Text as the sequence of its characters.
Lowercase ==
    << "a", "b", "c", "d", "e", "f", "g", "h", "i", "j", "k", "l", "m",
       "n", "o", "p", "q", "r", "s", "t", "u", "v", "w", "x", "y", "z" >>
Uppercase ==
    << "A", "B", "C", "D", "E", "F", "G", "H", "I", "J", "K", "L", "M",
       "N", "O", "P", "Q", "R", "S", "T", "U", "V", "W", "X", "Y", "Z" >>

\* str.lower and str.upper, character by character.
LowerChar(c) ==
    IF \E i \in 1..Len(Uppercase) : Uppercase[i] = c
    THEN Lowercase[CHOOSE i \in 1..Len(Uppercase) : Uppercase[i] = c]
    ELSE c
UpperChar(c) ==
    IF \E i \in 1..Len(Lowercase) : Lowercase[i] = c
    THEN Uppercase[CHOOSE i \in 1..Len(Lowercase) : Lowercase[i] = c]
    ELSE c
lower(w) == [i \in 1..Len(w) |-> LowerChar(w[i])]

\* A selection that looks the name up as it was typed.
select_template_AsTyped(name) ==
    LET templates == << [key |-> << "b", "a", "n", "k", "i", "n", "g" >>,
                         value |-> BANKING_TEMPLATE],
                        [key |-> << "h", "e", "a", "l", "t", "h", "c", "a", "r", "e" >>,
                         value |-> HEALTHCARE_TEMPLATE],
                        [key |-> << "e", "c", "o", "m", "m", "e", "r", "c", "e" >>,
                         value |-> ECOMMERCE_TEMPLATE] >>
    IN  IF \E i \in 1..Len(templates) : templates[i].key = name
        THEN templates[CHOOSE i \in 1..Len(templates) : templates[i].key = name].value
        ELSE BANKING_TEMPLATE

\* Lines 61-67: templates.get(template.lower(), BANKING_TEMPLATE)
select_template(name) ==
    LET templates == << [key |-> << "b", "a", "n", "k", "i", "n", "g" >>,
                         value |-> BANKING_TEMPLATE],
                        [key |-> << "h", "e", "a", "l", "t", "h", "c", "a", "r", "e" >>,
                         value |-> HEALTHCARE_TEMPLATE],
                        [key |-> << "e", "c", "o", "m", "m", "e", "r", "c", "e" >>,
                         value |-> ECOMMERCE_TEMPLATE] >>
    IN  IF \E i \in 1..Len(templates) : templates[i].key = lower(name)
        THEN templates[CHOOSE i \in 1..Len(templates) : templates[i].key = lower(name)].value
        ELSE BANKING_TEMPLATE

\* Lines 53-58: the data the command uses when no file is given.
CliDemoContext ==
    DataContext(<< Item("retention_rate", Float(5600)), Item("target", Float(8000)),
                   Item("customer_satisfaction", Float(7200)) >>,
                << Item("visit_frequency", Float(21000)), Item("cross_sell_rate", Float(2800)),
                   Item("quality_score", Float(8200)) >>,
                << Item("staffing_ratio", Float(6800)), Item("training_completion", Float(9100)) >>,
                << Item("market_trend", StrVal("declining")), Item("competitor_entries", IntVal(3)) >>)

\* The ways of typing a name: as it is, in capitals, with a capital first or
\* last letter, and with every second letter a capital.
Typed(w) ==
    LET masks == { {}, 1..Len(w), { 1 }, { Len(w) }, { i \in 1..Len(w) : i % 2 = 0 } }
    IN  { [i \in 1..Len(w) |-> IF i \in m THEN UpperChar(w[i]) ELSE w[i]] : m \in masks }

\* The values of --template: the three names in every way of typing, and
\* names of no template (the empty name, a prefix, a name with a trailing
\* space, a hyphenated name, another domain).
TemplateOptions ==
    Typed(<< "b", "a", "n", "k", "i", "n", "g" >>)
    \cup Typed(<< "h", "e", "a", "l", "t", "h", "c", "a", "r", "e" >>)
    \cup Typed(<< "e", "c", "o", "m", "m", "e", "r", "c", "e" >>)
    \cup { <<>>,
           << "h", "e", "a", "l", "t", "h" >>,
           << "H", "e", "a", "l", "t", "h", "c", "a", "r", "e", " " >>,
           << "e", "-", "c", "o", "m", "m", "e", "r", "c", "e" >>,
           << "R", "e", "t", "a", "i", "l" >> }

\* Lines 27-76 of the analyze command: the data is loaded (from the file
\* when one is given and exists, the demo data otherwise), the template is
\* selected, the agent is constructed with it and analyze is called with the
\* defaults.
CliAnalyze(q, name, has_file) ==
    /\ cli.pc = "Idle"
    /\ pc = "Idle"
    /\ callNo = 0
    /\ cli' = [pc |-> "Running", template |-> name, has_file |-> has_file]
    /\ template' = select_template(name)
    /\ last_given' = SomeTemplate(select_template(name))
    /\ _client' = "None"
    /\ pc' = "Rendering"
    /\ callNo' = callNo + 1
    /\ query' = q
    /\ given' = IF has_file THEN AsDict(PartialDict) ELSE AsObject(CliDemoContext)
    /\ data_context' = IF has_file THEN from_dict(PartialDict) ELSE CliDemoContext
    /\ max_retries' = DefaultMaxRetries
    /\ retry_delay' = DefaultRetryDelay
    /\ data_str' = EmptyText
    /\ system_prompt' = EmptyText
    /\ user_prompt' = EmptyText
    /\ attempt' = 0
    /\ outcomes' = <<>>
    /\ requests' = <<>>
    /\ waits' = <<>>
    /\ result' = NoResult
    /\ error' = NoError
    /\ UNCHANGED << client_ok, renders, clients_made, handles_used, evaluation,
                    calls, driver, run, demo, excel, db >>

CliCommand ==
    \E q \in Queries, name \in TemplateOptions, has_file \in BOOLEAN :
        CliAnalyze(q, name, has_file)

\* Line 78: the response is printed; a RuntimeError of analyze ends the
\* command instead.
CliEnds ==
    /\ cli.pc = "Running"
    /\ pc \in { "Succeeded", "Failed" }
    /\ cli' = [cli EXCEPT !.pc = IF pc = "Succeeded" THEN "Printed" ELSE "Raised"]
    /\ UNCHANGED << agent_vars, evaluation, calls, driver, run, demo, excel, db >>

InitCli == AgentInit(BANKING_TEMPLATE, TRUE)
NextCli == CliCommand \/ Render \/ Call \/ Wake \/ CliEnds
SpecCli == InitCli /\ [][NextCli]_vars

\* ====================================================== the driver's retry loop
\* experiments/config.py
MAX_RETRIES == 3
RETRY_DELAY == 2
MODEL_GENERATOR == "gpt-4-turbo"
MODEL_JUDGE == "gpt-4o"

driver_frame == << agent_vars, evaluation, calls, cli, run, demo, excel, db >>

\* api_call_with_retry(messages, model, json_mode) is called: line 58.
ApiCallEnter(model, json_mode) ==
    /\ driver.pc \in { "Idle", "Returned" }
    /\ driver' = [pc |-> IF 0 < MAX_RETRIES THEN "Calling" ELSE "Returned",
                  model |-> model, json_mode |-> json_mode, attempt |-> 0,
                  outcomes |-> <<>>, requests |-> <<>>, waits |-> <<>>,
                  result |-> NoneContent]
    /\ UNCHANGED driver_frame

api_call_with_retry ==
    \E model \in { MODEL_GENERATOR, MODEL_JUDGE }, json_mode \in BOOLEAN :
        ApiCallEnter(model, json_mode)

\* A wait that does not grow with the attempts.
DriverWait_Constant(attempt_) == RETRY_DELAY

\* Line 74: RETRY_DELAY * (attempt + 1)
DriverWait(attempt_) == RETRY_DELAY * (attempt_ + 1)

\* Lines 61-74, one pass of the loop whose completion call gives o: the
\* content of a response is returned; any exception is caught, and a sleep
\* follows when attempt < MAX_RETRIES - 1; after the last pass line 75
\* returns None.
ApiCallAttempt(o) ==
    /\ driver.pc = "Calling"
    /\ LET made == [driver EXCEPT
                       !.outcomes = Append(@, o),
                       !.requests = Append(@, [model |-> driver.model,
                                               json_mode |-> driver.json_mode])]
       IN  driver' =
              IF IsResponse(o)
              THEN [made EXCEPT !.pc = "Returned", !.result = o.content]
              ELSE IF driver.attempt < MAX_RETRIES - 1
              THEN [made EXCEPT !.pc = "Sleeping",
                                !.waits = Append(@, DriverWait(driver.attempt))]
              ELSE [made EXCEPT !.pc = "Returned", !.result = NoneContent]
    /\ UNCHANGED driver_frame

ApiCall == \E o \in TransportOutcomes : ApiCallAttempt(o)

\* time.sleep returns and the loop goes to its next index.
ApiCallWake ==
    /\ driver.pc = "Sleeping"
    /\ driver' = [driver EXCEPT !.pc = "Calling", !.attempt = @ + 1]
    /\ UNCHANGED driver_frame

InitDriver == AgentInit(BANKING_TEMPLATE, TRUE)
NextDriver == api_call_with_retry \/ ApiCall \/ ApiCallWake
SpecDriver == InitDriver /\ [][NextDriver]_vars

\* ====================================================== the experiment driver
\* Line 158
agent_types == << "naive", "structure", "4d-are" >>

\* A scenario as generate_single_scenario gives it: the number of its id
\* (scenario_001 is 1; line 96) and
\* the keys the generator model wrote, query among them or not.
Scenario(num, has_query) == [id |-> num, has_query |-> has_query]

\* The lists generate_all_scenarios can give: scenarios in the order of
\* their numbers, the numbers of failed generations missing.
ScenarioLists ==
    { sc \in UNION { [1..m -> { Scenario(num, q) : num \in 1..MaxScenarios, q \in BOOLEAN }] :
                       m \in 0..MaxScenarios } :
         \A a, b \in 1..Len(sc) : a < b => sc[a].id < sc[b].id }

run_frame == << agent_vars, evaluation, calls, cli, driver, demo, excel, db >>

\* run_all_agents(scenarios) is called: lines 152-160.
RunEnter(sc) ==
    /\ run.pc = "Idle"
    /\ run' = [run EXCEPT !.pc = IF sc = <<>> THEN "Ran" ELSE "Running",
                          !.scenarios = sc,
                          !.results = [t \in { agent_types[j] : j \in 1..Len(agent_types) } |-> <<>>]]
    /\ UNCHANGED run_frame

run_all_agents == \E sc \in ScenarioLists : RunEnter(sc)

\* response or "ERROR: No response"
ResponseOr(c) == IF c.some /\ c.text # "" THEN c.text ELSE "ERROR: No response"

\* After the inner loop's pass k of the outer loop's pass i.
Advance(r) ==
    IF r.k < Len(agent_types) THEN [r EXCEPT !.k = @ + 1]
    ELSE IF r.i < Len(r.scenarios) THEN [r EXCEPT !.k = 1, !.i = @ + 1]
    ELSE [r EXCEPT !.pc = "Ran"]

\* A pass that records nothing when the agent gave no response.
RunPass_SkipsFailures(c) ==
    /\ run.pc = "Running"
    /\ LET scenario == run.scenarios[run.i]
           agent_type == agent_types[run.k]
       IN  run' =
              IF ~scenario.has_query
              THEN [run EXCEPT !.pc = "Raised", !.raised = "KeyError"]
              ELSE IF c.some /\ c.text # ""
              THEN Advance([run EXCEPT !.results[agent_type] =
                               Append(@, [scenario_id |-> scenario.id, response |-> c.text])])
              ELSE Advance(run)
    /\ UNCHANGED run_frame

\* Lines 162-167, one pass of the inner loop: run_agent builds the prompts
\* from scenario["data_context"] and scenario["query"] (KeyError when the
\* scenario has no such key) and returns what api_call_with_retry returns,
\* a content c or None; the entry is appended.
RunPass(c) ==
    /\ run.pc = "Running"
    /\ LET scenario == run.scenarios[run.i]
           agent_type == agent_types[run.k]
       IN  run' =
              IF ~scenario.has_query
              THEN [run EXCEPT !.pc = "Raised", !.raised = "KeyError"]
              ELSE Advance([run EXCEPT !.results[agent_type] =
                               Append(@, [scenario_id |-> scenario.id,
                                          response |-> ResponseOr(c)])])
    /\ UNCHANGED run_frame

RunAgent == \E c \in Contents : RunPass(c)

\* Lines 220-234, one pass of evaluate_all's loop over enumerate(scenarios):
\* the row takes the scenario's id and, for each agent type, the entry at
\* the scenario's position (IndexError when there is none).
EvaluateRow ==
    /\ run.pc \in { "Ran", "Evaluating" }
    /\ Len(run.rows) < Len(run.scenarios)
    /\ LET i == Len(run.rows) + 1
           types == { agent_types[j] : j \in 1..Len(agent_types) }
       IN  run' =
              IF \E t \in types : Len(run.results[t]) < i
              THEN [run EXCEPT !.pc = "Raised", !.raised = "IndexError"]
              ELSE [run EXCEPT
                      !.pc = IF i = Len(run.scenarios) THEN "Evaluated" ELSE "Evaluating",
                      !.rows = Append(@, [scenario_id |-> run.scenarios[i].id,
                                          entries |-> [t \in types |-> run.results[t][i]]])]
    /\ UNCHANGED run_frame

InitRun == AgentInit(BANKING_TEMPLATE, TRUE)
NextRun == run_all_agents \/ RunAgent \/ EvaluateRow
SpecRun == InitRun /\ [][NextRun]_vars

\* ====================================================== concurrent calls
\* What the two threads ask.
ThreadInputs ==
    << [query |-> "Why is customer retention declining?", data_context |-> ScenarioContext],
       [query |-> "Why did revenue drop in Q3?", data_context |-> EmptyContext] >>

ThreadOutcomes ==
    { Response(SomeContent("analysis")), NoChoices, ApiError("Connection error.") }

\* Everything but the locals of the calls and the client handle.
calls_frame ==
    << pc, callNo, template, client_ok, query, data_context, max_retries,
       retry_delay, data_str, system_prompt, user_prompt, attempt, outcomes,
       requests, waits, result, error, given, renders, handles_used,
       evaluation, last_given, cli, driver, run, demo, excel, db >>

\* Thread t calls analyze: lines 67-90.
TEnter(t, n, d) ==
    /\ calls[t].pc = "Idle"
    /\ calls' = [calls EXCEPT ![t] =
                    [IdleCall EXCEPT !.pc = "Rendering",
                                     !.query = ThreadInputs[t].query,
                                     !.data_context = ThreadInputs[t].data_context,
                                     !.max_retries = n,
                                     !.retry_delay = d]]
    /\ UNCHANGED << calls_frame, _client, clients_made >>

\* for attempt in range(max_retries), at index i: line 99.
TLoopHeader(c, i) ==
    IF InRange(i, c.max_retries)
    THEN [c EXCEPT !.pc = "Checking", !.attempt = i]
    ELSE [c EXCEPT !.pc = "Succeeded", !.result = Returned("")]

\* Lines 91-99 in thread t: the prompts are built into the locals.
TRender(t) ==
    /\ calls[t].pc = "Rendering"
    /\ LET c == calls[t]
           prompts == build_agent_prompt(c.query, to_formatted_string(c.data_context), template)
       IN  calls' = [calls EXCEPT ![t] =
                        TLoopHeader([c EXCEPT !.system_prompt = prompts.system,
                                              !.user_prompt = prompts.user], 0)]
    /\ UNCHANGED << calls_frame, _client, clients_made >>

\* Lines 112-116 in a thread whose attempt raised e.
THandler(c, e) ==
    IF HasMoreAttempts(c.attempt, c.max_retries)
    THEN [c EXCEPT !.pc = "Retrying",
                   !.waits = Append(@, RetryWait(c.retry_delay, c.attempt))]
    ELSE [c EXCEPT !.pc = "Failed", !.error = RuntimeError(c.max_retries, e)]

\* Line 60 in thread t: if self._client is None.
TCheck(t) ==
    /\ calls[t].pc = "Checking"
    /\ calls' = [calls EXCEPT ![t].pc = IF NeedsClient(_client) THEN "Constructing"
                                        ELSE "Returning"]
    /\ UNCHANGED << calls_frame, _client, clients_made >>

\* Lines 61-64 in thread t: self._client = OpenAI(...), or the constructor
\* raises and the attempt has failed.
TConstruct(t) ==
    /\ calls[t].pc = "Constructing"
    /\ IF client_ok
       THEN /\ _client' = "handle"
            /\ clients_made' = clients_made + 1
            /\ calls' = [calls EXCEPT ![t].pc = "Returning"]
       ELSE /\ calls' = [calls EXCEPT ![t] =
                           THandler([calls[t] EXCEPT !.outcomes = Append(@, ConfigError)],
                                    ConfigError)]
            /\ UNCHANGED << _client, clients_made >>
    /\ UNCHANGED calls_frame

\* Line 65 in thread t: return self._client.
TReturn(t) ==
    /\ calls[t].pc = "Returning"
    /\ calls' = [calls EXCEPT ![t].pc = "Requesting", ![t].via = _client]
    /\ UNCHANGED << calls_frame, _client, clients_made >>

\* Lines 101-116 in thread t: the request is sent through the handle and the
\* completion call gives o.
TSend(t, o) ==
    /\ calls[t].pc = "Requesting"
    /\ LET c == [calls[t] EXCEPT
                    !.outcomes = Append(@, o),
                    !.requests =
                        Append(@, [model |-> model_agent,
                                   messages |->
                                      << [role |-> "system", content |-> calls[t].system_prompt],
                                         [role |-> "user", content |-> calls[t].user_prompt] >>,
                                   via |-> calls[t].via])]
       IN  calls' = [calls EXCEPT ![t] =
                        IF IsResponse(o)
                        THEN [c EXCEPT !.pc = "Succeeded",
                                       !.result = Returned(ContentOrEmpty(o.content))]
                        ELSE THandler(c, o)]
    /\ UNCHANGED << calls_frame, _client, clients_made >>

\* A retry that counts the attempts in a field of the agent, which every
\* call advances.
TWake_SharedCounter(t) ==
    /\ calls[t].pc = "Retrying"
    /\ calls' = [u \in Threads |->
                    IF u = t THEN TLoopHeader(calls[t], calls[t].attempt + 1)
                    ELSE [calls[u] EXCEPT !.attempt = @ + 1]]
    /\ UNCHANGED << calls_frame, _client, clients_made >>

\* time.sleep returns in thread t and its loop goes to its next index.
TWake(t) ==
    /\ calls[t].pc = "Retrying"
    /\ calls' = [calls EXCEPT ![t] = TLoopHeader(calls[t], calls[t].attempt + 1)]
    /\ UNCHANGED << calls_frame, _client, clients_made >>

ThreadAnalyze == \E t \in Threads, n \in 0..MaxThreadRetries : TEnter(t, n, DefaultRetryDelay)
ThreadRender == \E t \in Threads : TRender(t)
ThreadCheck == \E t \in Threads : TCheck(t)
ThreadConstruct == \E t \in Threads : TConstruct(t)
ThreadReturn == \E t \in Threads : TReturn(t)
ThreadCall == \E t \in Threads, o \in ThreadOutcomes : TSend(t, o)
ThreadWake == \E t \in Threads : TWake(t)

InitThreads == \E ok \in BOOLEAN : AgentInit(BANKING_TEMPLATE, ok)
NextThreads ==
    \/ ThreadAnalyze
    \/ ThreadRender
    \/ ThreadCheck
    \/ ThreadConstruct
    \/ ThreadReturn
    \/ ThreadCall
    \/ ThreadWake
SpecThreads == InitThreads /\ [][NextThreads]_vars

\* ====================================================== the retry loop
Terminated == pc \in { "Succeeded", "Failed" }

\* Whether the i-th completion call of the current request gave a response
\* (a first choice with a message), as opposed to raising.
Succeeded(i) == outcomes[i].kind = "response"

NoCallSucceeded == \A i \in 1..Len(outcomes) : ~Succeeded(i)

C2_SuccessAfterKFailures ==
    /\ \A j \in 1..Len(waits) : waits[j] = retry_delay * j
    /\ (pc = "Succeeded" /\ max_retries >= 1) =>
          LET k == Len(outcomes) - 1
          IN  /\ 0 <= k
              /\ k < max_retries
              /\ \A i \in 1..k : ~Succeeded(i)
              /\ Succeeded(k + 1)
              /\ result.returned
              /\ outcomes[k + 1].content.some =>
                    result.text = outcomes[k + 1].content.text
              /\ Len(requests) = k + 1
              /\ Len(waits) = k

\* max_retries = 3, two failures then a success: three calls, and waits of
\* 1 * delay then 2 * delay.
C2_Witness ==
    /\ pc = "Succeeded"
    /\ max_retries = 3
    /\ retry_delay = 2
    /\ Len(outcomes) = 3
    /\ ~Succeeded(1) /\ ~Succeeded(2) /\ Succeeded(3)
    /\ result = Returned("analysis")
    /\ waits = << 2, 4 >>

\* C3: a completion call that returns a response ends the analyze call at
\* once, whatever the content: it is the last completion call of the request,
\* and the text returned is its content, the empty text when the content is
\* None or empty.
C3_ResponseEndsTheCall ==
    \A i \in 1..Len(outcomes) :
        Succeeded(i) =>
            /\ i = Len(outcomes)
            /\ pc = "Succeeded"
            /\ result.returned
            /\ result.text =
                  (IF outcomes[i].content.some THEN outcomes[i].content.text ELSE "")

\* A failed call, then a response whose content is None, returned as "".
C3_Witness ==
    /\ pc = "Succeeded"
    /\ Len(outcomes) = 2
    /\ ~Succeeded(1)
    /\ outcomes[2] = Response(NoneContent)
    /\ result = Returned("")
    /\ max_retries >= 3

\* C4: for every max_retries, 0 and negative values included, an analyze call
\* ends either by returning the text of a successful completion response or
\* by raising the fatal error, and never returns a text when no completion
\* call has succeeded.
C4_TextOnlyFromASuccess ==
    /\ Terminated => (result.returned # error.raised)
    /\ result.returned => ~NoCallSucceeded

\* C5: the fatal error raised after the attempts are exhausted carries the
\* description of the failure of the last attempt and the number of attempts
\* made, and no text is returned.
C5_FatalErrorCarriesLastFailure ==
    pc = "Failed" =>
        /\ error.raised
        /\ error.type = "RuntimeError"
        /\ outcomes # <<>>
        /\ error.cause = outcomes[Len(outcomes)].desc
        /\ error.attempts = Len(outcomes)
        /\ ~result.returned

\* Three failed attempts whose first and last failures differ.
C5_Witness ==
    /\ pc = "Failed"
    /\ Len(outcomes) = 3
    /\ outcomes[1].desc = "Connection error."
    /\ outcomes[3].desc = "Rate limit exceeded"
    /\ error.cause = "Rate limit exceeded"

\* The transitions of one analyze request.
RequestTransitions ==
    { << "Idle", "Rendering" >>, << "Rendering", "Requesting" >>,
      << "Requesting", "Succeeded" >>, << "Requesting", "Retrying" >>,
      << "Requesting", "Failed" >>, << "Retrying", "Requesting" >>,
      << "Retrying", "Failed" >> }

\* C6: one analyze request moves only along Idle -> Rendering -> Requesting,
\* from Requesting to Succeeded, Retrying or Failed, and from Retrying back to
\* Requesting only while attempts remain, otherwise to Failed; nothing leaves
\* Succeeded or Failed.
C6_RequestStateMachine ==
    [][ /\ callNo' = callNo =>
            \/ pc' = pc
            \/ /\ << pc, pc' >> \in RequestTransitions
               /\ (pc = "Retrying" /\ pc' = "Requesting") => attempt' < max_retries
        /\ callNo' # callNo =>
            /\ pc \in { "Idle", "Succeeded", "Failed" }
            /\ pc' = "Rendering" ]_vars

\* C7: a configuration error at client construction is surfaced at once, also
\* when the handle is first constructed during an analyze call: the attempt
\* that met it is the last one, the call has failed, and no wait was made.
C7_ConfigErrorNotRetried ==
    \A i \in 1..Len(outcomes) :
        outcomes[i] = ConfigError =>
            /\ i = Len(outcomes)
            /\ pc = "Failed"
            /\ waits = <<>>

\* ======================================================== the formatter
\* The prompts of the current request have been built.
Rendered == pc \notin { "Idle", "Rendering" }

HeaderLines == << << "[Results]" >>, << "[Process]" >>, << "[Support]" >>, << "[Long-term]" >> >>

IsHeaderLine(line) == \E i \in 1..4 : line = HeaderLines[i]

\* A line of the form "  - <name>: <value>".
IsMetricLine(line) == Len(line) >= 3 /\ line[1] = "  - " /\ line[3] = ": "

\* The first place of line in text.
PosIn(text, line) ==
    CHOOSE p \in 1..Len(text) :
        /\ text[p] = line
        /\ \A r \in 1..(p - 1) : text[r] # line

CountIn(text, line) == Cardinality({ p \in 1..Len(text) : text[p] = line })

\* The i-th group of the current Metric Context, in the fixed order.
GroupAt(i) == data_context[GroupNames[i]]

\* The headers of the formatted text, in the order they appear.
HeadersOf(text) == SelectSeq(text, IsHeaderLine)

\* The headers of the non-empty groups, in the fixed order.
ExpectedHeaders ==
    LET Wanted(h) == \E i \in 1..4 : h = HeaderLines[i] /\ GroupAt(i) # <<>>
    IN  SelectSeq(HeaderLines, Wanted)

\* The line of the j-th metric of the i-th group (a non-empty group).
LineOfMetric(i, j) == data_str[PosIn(data_str, HeaderLines[i]) + j]

\* C8: the formatted text holds exactly one section per non-empty group and
\* no header for an empty group, in the order results, process, support,
\* longterm; a section is the group's header followed by one line per metric
\* of the group, in the group's order.
C8_OneSectionPerNonEmptyGroup ==
    Rendered =>
        /\ HeadersOf(data_str) = ExpectedHeaders
        /\ \A i \in 1..4 :
              GroupAt(i) # <<>> =>
                  LET p == PosIn(data_str, HeaderLines[i])
                      n == Len(GroupAt(i))
                  IN  /\ p + n <= Len(data_str)
                      /\ \A j \in 1..n :
                            /\ IsMetricLine(data_str[p + j])
                            /\ data_str[p + j][2] = GroupAt(i)[j].k
                      /\ p + n < Len(data_str) => ~IsMetricLine(data_str[p + n + 1])
        /\ (\A i \in 1..4 : GroupAt(i) = <<>>) => data_str = EmptyText

\* The end-to-end scenario: support is empty, and the text holds the
\* headers of results, process and longterm, in this order.
C8_Witness ==
    /\ Rendered
    /\ data_context = ScenarioContext
    /\ HeadersOf(data_str) = << << "[Results]" >>, << "[Process]" >>, << "[Long-term]" >> >>
    /\ HeadersOf(system_prompt) = HeadersOf(data_str)

\* --- reading a formatted value back
IsDigit(c) == \E d \in 1..10 : DigitChar[d] = c

DigitOf(c) == (CHOOSE d \in 1..10 : DigitChar[d] = c) - 1

RECURSIVE NatOf(_)
NatOf(cs) ==
    IF cs = <<>> THEN 0
    ELSE NatOf(SubSeq(cs, 1, Len(cs) - 1)) * 10 + DigitOf(cs[Len(cs)])

IsNegative(cs) == cs # <<>> /\ cs[1] = "-"

Unsigned(cs) == IF IsNegative(cs) THEN Tail(cs) ELSE cs

\* cs is an optional sign, an integer part without superfluous zeros, a
\* point and exactly d fractional digits.
IsDecimal(cs, d) ==
    LET u == Unsigned(cs)
        n == Len(u)
    IN  /\ n >= d + 2
        /\ u[n - d] = "."
        /\ \A i \in 1..n : i # n - d => IsDigit(u[i])
        /\ n - d - 1 > 1 => u[1] # "0"

\* The magnitude of such a decimal, in units of 10^-d.
Magnitude(cs, d) ==
    LET u == Unsigned(cs)
        n == Len(u)
    IN  NatOf(SubSeq(u, 1, n - d - 1) \o SubSeq(u, n - d + 1, n))

\* cs, a decimal with d fractional digits, is the one nearest to
\* mult * num / Scale, with the sign of num.
IsNearest(cs, d, num, mult) ==
    /\ IsDecimal(cs, d)
    /\ 2 * Abs(Magnitude(cs, d) * Scale - Abs(num) * mult * Pow10(d)) <= Scale
    /\ IsNegative(cs) <=> num < 0

\* cs is the percentage of v with one fractional digit.
IsPercent1(cs, v) ==
    /\ Len(cs) >= 2
    /\ cs[Len(cs)] = "%"
    /\ IsNearest(SubSeq(cs, 1, Len(cs) - 1), 1, v.num, 100)

\* cs is v as a plain decimal with two fractional digits.
IsFixed2(cs, v) == IsNearest(cs, 2, v.num, 1)

\* cs is the natural text form of v.
IsNatural(cs, v) ==
    CASE v.type = "float" ->
            IF v.fin
            THEN \E d \in 1..4 :
                    /\ IsDecimal(cs, d)
                    /\ Magnitude(cs, d) * Scale = Abs(v.num) * Pow10(d)
                    /\ IsNegative(cs) <=> v.num < 0
                    /\ d = 1 \/ cs[Len(cs)] # "0"
            ELSE cs = << v.name >>
      [] v.type = "int" ->
            /\ Unsigned(cs) # <<>>
            /\ \A i \in 1..Len(Unsigned(cs)) : IsDigit(Unsigned(cs)[i])
            /\ NatOf(Unsigned(cs)) = Abs(v.num)
            /\ IsNegative(cs) <=> v.num < 0
      [] v.type = "bool" -> cs = << IF v.b THEN "True" ELSE "False" >>
      [] v.type = "str" -> cs = << v.s >>
      [] v.type = "none" -> cs = << "None" >>

\* The formatted value on a metric line.
ValueOf(line) == SubSeq(line, 4, Len(line))

\* The rendering the claim gives to value v of the i-th group.
ClaimedRendering(i, cs, v) ==
    IF v.type = "float" /\ i \in { 1, 3 } THEN IsPercent1(cs, v)
    ELSE IF v.type = "float" /\ i = 2 THEN IsFixed2(cs, v)
    ELSE IsNatural(cs, v)

\* C9 (as stated): every float of results or support is rendered as a
\* percentage with one fractional digit, every float of process as a plain
\* decimal with two fractional digits, and every other value in its natural
\* text form.
C9_RenderingByGroupAndType ==
    Rendered =>
        \A i \in 1..4 : \A j \in 1..Len(GroupAt(i)) :
            /\ IsMetricLine(LineOfMetric(i, j))
            /\ ClaimedRendering(i, ValueOf(LineOfMetric(i, j)), GroupAt(i)[j].v)

\* C9 (amended): every finite float of results or support is rendered as a
\* percentage with one fractional digit and every finite float of process as
\* a plain decimal with two fractional digits, each the nearest such decimal;
\* a float that is not finite is rendered as its name (nan, inf), followed by
\* % in results and support; every other value, and every value of longterm,
\* is rendered in its natural text form; every value has its line.
C9_RenderingOfFiniteFloats ==
    Rendered =>
        \A i \in 1..4 : \A j \in 1..Len(GroupAt(i)) :
            LET v == GroupAt(i)[j].v
                cs == ValueOf(LineOfMetric(i, j))
            IN  /\ IsMetricLine(LineOfMetric(i, j))
                /\ IF v.type = "float" /\ ~v.fin /\ i \in { 1, 3 }
                   THEN cs = << v.name, "%" >>
                   ELSE IF v.type = "float" /\ ~v.fin /\ i = 2
                   THEN cs = << v.name >>
                   ELSE ClaimedRendering(i, cs, v)

\* The end-to-end scenario: 0.56 in results gives 56.0%, 2.1 in process
\* gives 2.10 and the text of longterm is unchanged.
C9_Witness ==
    /\ Rendered
    /\ data_context = ScenarioContext
    /\ ValueOf(LineOfMetric(1, 1)) = << "5", "6", ".", "0", "%" >>
    /\ ValueOf(LineOfMetric(2, 1)) = << "2", ".", "1", "0" >>
    /\ ValueOf(LineOfMetric(4, 1)) = << "declining" >>

\* ================================================ the template renderer
\* C10: the system message of a template with N boundary rules holds, right
\* after the boundary heading and before the fixed instructions, exactly N
\* bulleted lines, the i-th being the marker "- " followed by the i-th rule
\* (for N = 0 the place holds one empty line and no bullet).
C10_BoundaryRulesAsBullets ==
    Rendered =>
        LET b == template.boundaries
            N == Len(b)
            p == PosIn(system_prompt, BoundaryHeading)
            q == PosIn(system_prompt, HedgedLine)
        IN  /\ CountIn(system_prompt, BoundaryHeading) = 1
            /\ CountIn(system_prompt, HedgedLine) = 1
            /\ SubSeq(system_prompt, p + 1, q - 1) =
                  (IF N = 0 THEN << <<>> >> ELSE [i \in 1..N |-> << "- ", b[i] >>])

\* An ad hoc template with three rules, two of them the same text, rendered
\* as three bullets in the order of the list.
C10_Witness ==
    /\ Rendered
    /\ template \in AdHocTemplates
    /\ Len(template.boundaries) = 3
    /\ template.boundaries[1] = template.boundaries[3]
    /\ template.boundaries[1] # template.boundaries[2]
    /\ system_prompt[PosIn(system_prompt, BoundaryHeading) + 3] = << "- ", template.boundaries[3] >>

\* ================================================== the prompt pair
SameInputs(a, b) ==
    /\ a.template = b.template
    /\ a.data_context = b.data_context
    /\ a.query = b.query

\* The rendering of the current analyze call.
LastRender == renders[Len(renders)]

C12_SystemMessageLayout ==
    Rendered =>
        LET n == Len(render(template))
        IN  /\ data_str = to_formatted_string(data_context)
            /\ Len(system_prompt) = n + 2 + Len(data_str)
            /\ SubSeq(system_prompt, 1, n) = render(template)
            /\ system_prompt[n + 1] = <<>>
            /\ system_prompt[n + 2] = << "DATA CONTEXT:" >>
            /\ SubSeq(system_prompt, n + 3, Len(system_prompt)) = data_str
            /\ data_context = EmptyContext =>
                  /\ data_str = EmptyText
                  /\ system_prompt[Len(system_prompt) - 1] = << "DATA CONTEXT:" >>

\* A prompt was built for the empty Metric Context.
C12_Witness ==
    /\ Rendered
    /\ data_context = EmptyContext
    /\ template = HEALTHCARE_TEMPLATE
    /\ CountIn(system_prompt, << "DATA CONTEXT:" >>) = 1

\* ======================================================== from_dict
FourGroups == { GroupNames[i] : i \in 1..4 }

\* The value the dict gives to key k (a key of the dict).
ValueAt(data, k) == data[CHOOSE i \in 1..Len(data) : data[i].key = k].value

\* Whether some token of some line of text is tok.
Mentions(text, tok) ==
    \E p \in 1..Len(text) : \E j \in 1..Len(text[p]) : text[p][j] = tok

\* C13: the context analyze makes from a dict has exactly the four groups:
\* a key of the dict that names a group supplies that group, a group whose
\* key is missing is empty, and a key that names no group supplies nothing,
\* neither to the context nor to the formatted text.
C13_FromDictFourGroups ==
    (callNo > 0 /\ given.is_dict) =>
        /\ DOMAIN data_context = FourGroups
        /\ \A g \in FourGroups :
              data_context[g] = IF HasKey(given.dict, g) THEN ValueAt(given.dict, g)
                                ELSE <<>>
        /\ Rendered =>
              /\ HeadersOf(data_str) = ExpectedHeaders
              /\ \A i \in 1..Len(given.dict) :
                    given.dict[i].key \notin FourGroups =>
                        \A j \in 1..Len(given.dict[i].value) :
                            ~Mentions(data_str, given.dict[i].value[j].k)
              /\ Cardinality({ p \in 1..Len(data_str) : IsMetricLine(data_str[p]) })
                    = Len(data_context.results) + Len(data_context.process)
                      + Len(data_context.support) + Len(data_context.longterm)

\* A dict with a fifth key and without the longterm key was converted and
\* formatted.
C13_Witness ==
    /\ Rendered
    /\ given.is_dict
    /\ HasKey(given.dict, "environment")
    /\ ValueAt(given.dict, "environment") # <<>>
    /\ ~HasKey(given.dict, "longterm")
    /\ HasKey(given.dict, "support")
    /\ data_context.support # <<>>

\* ================================================= the client handle
\* C14: the client handle is made lazily and at most once: a new agent has
\* none, none is made before the first completion attempt, the first
\* attempt of an agent whose settings allow it makes one, and every
\* completion call, of this analyze call and of later ones, goes through
\* that one handle.
C14_ClientCreatedOnceLazily ==
    /\ clients_made <= 1
    /\ (_client = "None") <=> (clients_made = 0)
    /\ (callNo = 0 \/ (callNo = 1 /\ outcomes = <<>>)) => clients_made = 0
    /\ (client_ok /\ outcomes # <<>>) => clients_made = 1
    /\ handles_used \subseteq { 1 }
    /\ requests # <<>> => handles_used = { 1 }

\* A second analyze call is at its second completion call, through the
\* handle the first call made.
C14_Witness ==
    /\ callNo = 2
    /\ Len(requests) = 2
    /\ clients_made = 1
    /\ handles_used = { 1 }

\* ============================================== calls on one agent
\* The prompts the current call's inputs give.
ExpectedPrompts ==
    build_agent_prompt(LastRender.query, to_formatted_string(LastRender.data_context),
                       LastRender.template)

\* C15: an analyze call is stateless with respect to the calls before it:
\* each of its requests carries two messages, system then user, built from
\* this call's query, this call's Metric Context and the template the agent
\* had during the call; its attempts are counted from zero, and a call that
\* fails has made max_retries of them, whatever the earlier calls did.
C15_CallsAreStateless ==
    /\ \A i \in 1..Len(requests) :
          LET m == requests[i].messages
          IN  /\ Len(m) = 2
              /\ m[1] = [role |-> "system", content |-> ExpectedPrompts.system]
              /\ m[2] = [role |-> "user", content |-> ExpectedPrompts.user]
    /\ pc \in { "Requesting", "Retrying" } =>
          /\ LastRender.query = query
          /\ LastRender.data_context = Bind(given)
          /\ LastRender.template = template
    /\ pc = "Requesting" => attempt = Len(outcomes)
    /\ Len(outcomes) <= max_retries
    /\ pc = "Failed" => Len(outcomes) = max_retries

\* A second call, with another query and another Metric Context than the
\* first, has failed after its own max_retries attempts.
C15_Witness ==
    /\ Len(renders) = 2
    /\ renders[1].query # renders[2].query
    /\ renders[1].data_context # renders[2].data_context
    /\ pc = "Failed"
    /\ Len(requests) = DefaultMaxRetries

InCall == pc \in { "Rendering", "Requesting", "Retrying" }

\* C16: a step of an analyze call, the call's entry included, leaves the
\* agent's template and settings as they were and changes the cached client
\* handle only from unset to set; once the call is entered, the argument it
\* was given and the Metric Context are never changed, and a DataContext
\* argument is the call's Metric Context as it is.
C16_AnalyzeFrame ==
    [][(InCall \/ callNo' = callNo + 1) =>
          /\ template' = template
          /\ client_ok' = client_ok
          /\ _client' = _client \/ (_client = "None" /\ _client' = "handle")
          /\ InCall => (given' = given /\ data_context' = data_context)
          /\ (callNo' = callNo + 1 /\ ~given'.is_dict) => data_context' = given'.ctx]_vars

\* A second call has failed, after retries, on an agent that has a handle.
C16_Witness ==
    /\ callNo = 2
    /\ pc = "Failed"
    /\ waits # <<>>
    /\ _client = "handle"
    /\ data_context = ScenarioContext

\* The instructions of a rendering: the system message before the delimiter.
InstructionsOf(r) == SubSeq(r.system, 1, Len(r.system) - Len(r.data_str) - 2)

\* Whether the template t lists the metric name k in some group.
Lists(t, k) ==
    \E i \in 1..4 : \E j \in 1..Len(t[GroupNames[i]]) : t[GroupNames[i]][j] = k

\* C17: the template's lists of example names do not constrain the Metric
\* Context: every metric of the context has its line in the data block,
\* listed or not, no rendering raises, the data block of two renderings of
\* the same context is the same under any two templates, and the
\* instructions of two renderings under the same template are the same for
\* any two contexts.
C17_TemplateListsDoNotConstrain ==
    /\ \A i \in 1..Len(renders) :
          \A g \in 1..4 : \A j \in 1..Len(renders[i].data_context[GroupNames[g]]) :
              Mentions(renders[i].data_str, renders[i].data_context[GroupNames[g]][j].k)
    /\ \A i, j \in 1..Len(renders) :
          /\ renders[i].data_context = renders[j].data_context =>
                renders[i].data_str = renders[j].data_str
          /\ renders[i].template = renders[j].template =>
                InstructionsOf(renders[i]) = InstructionsOf(renders[j])
    /\ Len(renders) = IF pc = "Rendering" THEN callNo - 1 ELSE callNo
    /\ error.raised => (error.type = "RuntimeError" /\ Len(outcomes) = max_retries)

\* The same context, with a metric one template lists and the other does
\* not, went through two calls under the two templates, and the second
\* call succeeded.
C17_Witness ==
    /\ Len(renders) = 2
    /\ renders[1].template # renders[2].template
    /\ renders[1].data_context = ScenarioContext
    /\ renders[2].data_context = ScenarioContext
    /\ Lists(renders[1].template, "visit_frequency") # Lists(renders[2].template, "visit_frequency")
    /\ pc = "Succeeded"
    /\ result = Returned("analysis")

\* ============================================= the retry decision
\* C20: what follows a failed completion call depends on its index alone:
\* the i-th call of the request, when it fails, is followed by the wait
\* retry_delay * i and a retry if i < max_retries, and by the fatal error
\* otherwise, whatever the failure was.
C20_RetryDecisionByIndexOnly ==
    \A i \in 1..Len(outcomes) :
        ~Succeeded(i) =>
            IF i < max_retries
            THEN /\ Len(waits) >= i
                 /\ waits[i] = retry_delay * i
                 /\ i = Len(outcomes) =>
                       \/ pc = "Retrying" /\ attempt = i - 1
                       \/ pc = "Requesting" /\ attempt = i
            ELSE /\ i = Len(outcomes)
                 /\ Len(waits) = i - 1
                 /\ pc = "Failed"

\* A response without choices and a network failure were both retried, and
\* a response without choices at the last index was fatal.
C20_Witness ==
    /\ Len(outcomes) = 3
    /\ max_retries = 3
    /\ outcomes[1] = NoChoices
    /\ outcomes[2].kind = "api_error"
    /\ outcomes[3] = NoChoices
    /\ pc = "Failed"
    /\ retry_delay > 0

\* ================================================ evaluate_response
\* The names of the four scores in the result of evaluate_response.
ScoreNames(impl) ==
    IF impl = "runner" THEN ScoreKeys
    ELSE << "causal_chain", "dim_separation", "actionability", "boundary" >>

\* The judge call returned a text, and the text is not JSON.
AnswerIsNotJson == evaluation.answer.some /\ ~json_loads(evaluation.answer.text).ok

\* C18: when the judge call returned a text that is not JSON,
\* evaluate_response (the runner's and the driver's) raises nothing and
\* returns a result whose four scores are all 0.
C18_UnparsableAnswerGivesZeroScores ==
    (evaluation.pc \in { "Done", "Raised" } /\ AnswerIsNotJson) =>
        /\ evaluation.pc = "Done"
        /\ evaluation.value.kind = "object"
        /\ \A i \in 1..4 :
              /\ HasKey(evaluation.value.members, ScoreNames(evaluation.impl)[i])
              /\ GetOr(evaluation.value.members, ScoreNames(evaluation.impl)[i], NoneVal)
                    = IntVal(0)

\* ====================================================== termination
Max0(n) == IF n > 0 THEN n ELSE 0

\* A bound on the steps the current analyze call has left.
StepsLeft ==
    CASE pc = "Rendering" -> 2 * Max0(max_retries) + 2
      [] pc = "Requesting" -> 2 * (max_retries - attempt)
      [] pc = "Retrying" -> 2 * (max_retries - attempt) - 1
      [] OTHER -> 0

\* Why a call is over: its last completion call succeeded, or no attempt
\* is left to it.
StopReason ==
    \/ outcomes # <<>> /\ Succeeded(Len(outcomes)) /\ pc = "Succeeded"
    \/ NoCallSucceeded /\ Len(outcomes) >= max_retries

\* C19: every analyze call terminates, whatever max_retries: a call that
\* has begun is eventually Succeeded or Failed, each step of the call brings
\* it nearer to its end, and it ends because a completion call succeeded or
\* because no attempt is left (with the fatal error when attempts were made).
C19_AnalyzeTerminates ==
    /\ InCall ~> Terminated
    /\ [][InCall =>
            /\ StepsLeft' < StepsLeft
            /\ Terminated' => StopReason'
            /\ pc' = "Failed" => (error'.raised /\ Len(outcomes') = max_retries)]_vars

\* A call with the largest max_retries has ended after using every attempt.
C19_Witness ==
    /\ max_retries = MaxRetries
    /\ pc = "Failed"
    /\ Len(outcomes) = MaxRetries
    /\ Len(waits) = MaxRetries - 1

C23_RenderedOncePerCall ==
    /\ Len(renders) = (IF pc = "Rendering" THEN callNo - 1 ELSE callNo)
    /\ pc = "Rendering" => outcomes = <<>> /\ requests = <<>>
    /\ \A i \in 1..Len(requests) :
          /\ requests[i].model = model_agent
          /\ requests[i].messages =
                << [role |-> "system", content |-> LastRender.system],
                   [role |-> "user", content |-> LastRender.user] >>

C23_Witness ==
    /\ callNo = 2
    /\ Len(requests) = 3
    /\ pc = "Succeeded"

\* C24: an analyze call renders its system message from the template most
\* recently given to the agent (by the constructor, banking when none was
\* given, or by set_template), and giving a template leaves the cached
\* client handle and the number of handles made as they were.
C24_TemplateMostRecentlyGiven ==
    [][ /\ (pc = "Rendering" /\ pc' # "Rendering") =>
              /\ renders'[Len(renders')].template = TemplateOr(last_given)
              /\ system_prompt' =
                    build_agent_prompt(query, data_str', TemplateOr(last_given)).system
        /\ last_given' # last_given =>
              /\ template' = TemplateOr(last_given')
              /\ _client' = _client
              /\ clients_made' = clients_made
              /\ handles_used' = handles_used ]_vars

C24_Witness ==
    /\ callNo = 2
    /\ pc = "Succeeded"
    /\ clients_made = 1
    /\ renders[1].template = BANKING_TEMPLATE
    /\ renders[2].template = HEALTHCARE_TEMPLATE
    /\ last_given = SomeTemplate(HEALTHCARE_TEMPLATE)


\* C28: after any sequence of DemoDataServer constructions and set_scenario
\* calls the server's data is the data of DEMO_SCENARIOS[server.scenario];
\* set_scenario with an unknown name raises ValueError and leaves scenario and
\* data as they were, and a constructor with an unknown name raises
\* ValueError and produces no server.
LastOp(log) == log[Len(log)]

C28_DataFollowsScenario ==
    /\ demo.exists =>
          /\ demo.scenario \in DOMAIN DEMO_SCENARIOS
          /\ demo.data = DEMO_SCENARIOS[demo.scenario].data
    /\ demo.log # <<>> =>
          /\ LastOp(demo.log).arg \notin DOMAIN DEMO_SCENARIOS <=> demo.raised = "ValueError"
          /\ LastOp(demo.log).arg \in DOMAIN DEMO_SCENARIOS =>
                demo.exists /\ demo.scenario = LastOp(demo.log).arg
          /\ LastOp(demo.log).op = "__init__" /\ demo.raised = "ValueError" => ~demo.exists
          /\ demo.raised = "ValueError" /\ demo.exists =>
                \E i \in 1..(Len(demo.log) - 1) :
                    /\ demo.log[i].arg = demo.scenario
                    /\ \A j \in (i + 1)..Len(demo.log) :
                          demo.log[j].arg \notin DOMAIN DEMO_SCENARIOS

C28_Witness ==
    /\ demo.exists
    /\ Len(demo.log) = 3
    /\ demo.log[1].arg = "banking_retention"
    /\ demo.log[2].arg = "healthcare_readmission"
    /\ demo.log[3].arg = "retail_churn"
    /\ demo.raised = "ValueError"
    /\ demo.scenario = "healthcare_readmission"


\* C29: once a load has succeeded, every get_*_metrics / get_all_metrics call
\* returns the cached data without reading the file, whatever the file has
\* become; a failed load leaves the cache unset and the next call tries
\* again; reload discards the cache before it loads, so a failed reload
\* leaves no cached data. (query_custom is not one of these operations.)
CanLoad(s) == s.file.exists /\ s.ext \in { ".csv", ".xlsx", ".xls" }

C30_WitnessBlockRaised ==
    /\ db.last = "__exit__"
    /\ db.raised = "KeyError"
    /\ db.disconnects = 1
    /\ db._connection = "None"


\* C25: the analyze command selects the Domain Template by name without
\* regard to case among banking, healthcare and ecommerce, and any other
\* name selects the banking template; the command goes on to the analysis
\* with the selected template in every case.
SameLetters(typed, name) ==
    /\ Len(typed) = Len(name)
    /\ \A i \in 1..Len(name) : typed[i] = name[i] \/ typed[i] = UpperChar(name[i])

NamedTemplate(typed) ==
    IF SameLetters(typed, << "h", "e", "a", "l", "t", "h", "c", "a", "r", "e" >>)
    THEN HEALTHCARE_TEMPLATE
    ELSE IF SameLetters(typed, << "e", "c", "o", "m", "m", "e", "r", "c", "e" >>)
    THEN ECOMMERCE_TEMPLATE
    ELSE BANKING_TEMPLATE

C25_TemplateByNameIgnoringCase ==
    cli.pc # "Idle" =>
        /\ template = NamedTemplate(cli.template)
        /\ pc # "Idle"
        /\ pc # "Rendering" =>
              /\ renders[1].template = NamedTemplate(cli.template)
              /\ system_prompt =
                    build_agent_prompt(query, data_str, NamedTemplate(cli.template)).system

C25_Witness ==
    /\ cli.pc = "Printed"
    /\ cli.template = << "h", "E", "a", "L", "t", "H", "c", "A", "r", "E" >>
    /\ template = HEALTHCARE_TEMPLATE

C25_WitnessUnknown ==
    /\ cli.pc = "Printed"
    /\ cli.template = << "R", "e", "t", "a", "i", "l" >>
    /\ template = BANKING_TEMPLATE


\* C26: api_call_with_retry makes at most MAX_RETRIES completion calls,
\* returns the content of the first response without a further call, waits
\* RETRY_DELAY * j before retry j and not after the last failed attempt, and
\* after MAX_RETRIES failures returns None.
C26_DriverRetryLoop ==
    /\ Len(driver.outcomes) <= MAX_RETRIES
    /\ Len(driver.requests) = Len(driver.outcomes)
    /\ \A j \in 1..Len(driver.waits) :
          /\ driver.waits[j] = RETRY_DELAY * j
          /\ ~IsResponse(driver.outcomes[j])
          /\ j < MAX_RETRIES
    /\ \A j \in 1..(Len(driver.outcomes) - 1) : ~IsResponse(driver.outcomes[j])
    /\ driver.pc = "Calling" =>
          Len(driver.outcomes) = driver.attempt /\ Len(driver.waits) = driver.attempt
    /\ driver.pc = "Sleeping" =>
          Len(driver.waits) = Len(driver.outcomes) /\ Len(driver.outcomes) < MAX_RETRIES
    /\ driver.pc = "Returned" =>
          LET last == driver.outcomes[Len(driver.outcomes)]
          IN  /\ driver.outcomes # <<>>
              /\ Len(driver.waits) = Len(driver.outcomes) - 1
              /\ IF IsResponse(last)
                 THEN driver.result = last.content
                 ELSE Len(driver.outcomes) = MAX_RETRIES /\ driver.result = NoneContent

C26_Witness ==
    /\ driver.pc = "Returned"
    /\ Len(driver.outcomes) = MAX_RETRIES
    /\ ~IsResponse(driver.outcomes[MAX_RETRIES])
    /\ driver.waits = << 2, 4 >>
    /\ driver.result = NoneContent

C26_WitnessSecondAttempt ==
    /\ driver.pc = "Returned"
    /\ Len(driver.outcomes) = 2
    /\ driver.result.some
    /\ driver.waits = << 2 >>


\* C27: when run_all_agents returns, each of the three agent types has a
\* list with one entry per input scenario, in input order, entry i carrying
\* the id of scenario i, a failed call recorded as 'ERROR: No response'; so
\* every row of evaluate_all pairs scenario i with the entries of scenario i.
AgentTypes == { "naive", "structure", "4d-are" }

C27_OneEntryPerScenario ==
    /\ DOMAIN run.results = AgentTypes
    /\ run.pc \in { "Ran", "Evaluating", "Evaluated" } =>
          \A t \in AgentTypes :
              /\ Len(run.results[t]) = Len(run.scenarios)
              /\ \A i \in 1..Len(run.scenarios) :
                    /\ run.results[t][i].scenario_id = run.scenarios[i].id
                    /\ run.results[t][i].response # ""
    /\ run.pc = "Raised" => run.raised = "KeyError"
    /\ \A i \in 1..Len(run.rows) :
          /\ run.rows[i].scenario_id = run.scenarios[i].id
          /\ \A t \in AgentTypes : run.rows[i].entries[t].scenario_id = run.scenarios[i].id

C27_Witness ==
    /\ run.pc = "Evaluated"
    /\ Len(run.scenarios) = 2
    /\ run.results["naive"][1].response = "ERROR: No response"
    /\ run.results["4d-are"][1].response = "analysis"
    /\ run.results["naive"][2].response = "analysis"
    /\ run.rows[2].entries["naive"].scenario_id = 2


\* C21: when two analyze calls run concurrently on one agent, each keeps its
\* own attempt counter and its own rendered messages: what a call does and
\* gives is what the same call gives alone on the same transport outcomes
\* (it stops at its first response or after max_retries failures, waits
\* between its own attempts, and sends the messages of its own query and
\* data at every attempt), and every completion call goes through a handle
\* that was set.
AloneOn(c) ==
    LET outs == c.outcomes
        n == c.max_retries
        last == outs[Len(outs)]
    IN  /\ Len(outs) <= Max0(n)
        /\ \A j \in 1..(Len(outs) - 1) : ~IsResponse(outs[j])
        /\ \A j \in 1..Len(c.waits) :
              c.waits[j] = RetryWait(c.retry_delay, j - 1) /\ ~IsResponse(outs[j])
        /\ c.pc \in { "Checking", "Constructing", "Returning", "Requesting" } =>
              c.attempt = Len(outs) /\ Len(c.waits) = Len(outs)
        /\ c.pc = "Retrying" => c.attempt = Len(outs) - 1 /\ Len(c.waits) = Len(outs)
        /\ c.pc = "Succeeded" =>
              IF outs = <<>> THEN n <= 0 /\ c.result = Returned("")
              ELSE /\ IsResponse(last)
                   /\ c.result = Returned(ContentOrEmpty(last.content))
                   /\ Len(c.waits) = Len(outs) - 1
        /\ c.pc = "Failed" =>
              /\ Len(outs) = n
              /\ ~IsResponse(last)
              /\ c.error = RuntimeError(n, last)
              /\ Len(c.waits) = n - 1

OwnMessages(c) ==
    LET prompts == build_agent_prompt(c.query, to_formatted_string(c.data_context), template)
    IN  \A i \in 1..Len(c.requests) :
            /\ c.requests[i].model = model_agent
            /\ c.requests[i].messages =
                  << [role |-> "system", content |-> prompts.system],
                     [role |-> "user", content |-> prompts.user] >>
            /\ c.requests[i].via # "None"

C21_ConcurrentCallsIndependent ==
    \A t \in Threads :
        /\ AloneOn(calls[t])
        /\ OwnMessages(calls[t])
        /\ Len(calls[t].requests) =
              Cardinality({ j \in 1..Len(calls[t].outcomes) : calls[t].outcomes[j] # ConfigError })

C21_Witness ==
    /\ calls[1].pc = "Failed"
    /\ calls[2].pc = "Succeeded"
    /\ Len(calls[1].requests) = 2
    /\ Len(calls[2].requests) = 2
    /\ clients_made = 2

====
